---- MODULE Spec2Model ----
(***************************************************************************)
(* Model of maptoposter's layer preparation pipeline:                      *)
(*   - LayerCache (render.py): the process-wide bounded cache of prepared  *)
(*     layer bundles, with its get / set / clear handlers;                 *)
(*   - PosterRenderer.build_layers (render.py): the layer builder.         *)
(*                                                                         *)
(* Units.  Time is in whole seconds.  Sizes are in bytes.  Z-orders are in *)
(* tenths (ZOrder.PATHS = 3.5 is 35).  A cache key "lat_lon_dist" is the   *)
(* triple of its three rounded numbers: latitude and longitude in 1e-5     *)
(* degrees, distance in 0.1 m.                                             *)
(***************************************************************************)
EXTENDS Integers, Sequences, FiniteSets, TLC

\* ------------------------------------------------------------------------
\* Bounds of the model
\* ------------------------------------------------------------------------
NumKeys == 5          \* distinct cache keys the callers use
MaxCalls == 6         \* calls and clock advances in a behaviour
NumThreads == 2       \* worker threads sharing the cache
MaxThreadCalls == 2   \* calls and clock advances while the threads run
MaxBuilds == 2        \* build_layers calls in a behaviour
MaxRows == 2          \* rows of the edge table
MaxApplies == 2       \* apply_raster_effects calls in a behaviour
MaxRenders == 1       \* PosterRenderer.render calls in a behaviour
MaxCities == 3        \* valid lines of the batch file
NumWorkers == 2       \* --workers: threads of the batch pool
TickStep == 1800      \* seconds per clock advance
StartTime == 1000     \* time.time() when the process starts
SmallSize == 10485760     \* estimated size of a small bundle (10MB)
LargeSize == 209715200    \* estimated size of a large bundle (200MB)

\* ------------------------------------------------------------------------
\* LayerCache configuration constants (render.py:83-85)
\* ------------------------------------------------------------------------
MAX_ENTRIES == 4
MAX_BYTES == 500 * 1024 * 1024
TTL_SECONDS == 3600

VARIABLES
    cache,      \* LayerCache._cache : key -> stored payload (with cached_at)
    order,      \* LayerCache._order : keys in insertion order
    stats,      \* LayerCache._stats
    now,        \* time.time()
    last,       \* the call that returned last, with its return value
    calls,      \* history: number of get / set / clear calls / clock advances
    used,       \* history: number of distinct keys the callers used so far
    fill,       \* history: the distinct keys set so far on the initially
                \* empty cache, while no clear, expiry or repeated key occurred
    insertedAt, \* history: key -> ordinal of the set call that inserted it
    lock,       \* LayerCache._lock : 0 when free, else the holding thread
    pc,         \* thread -> its position in the handler it runs
    targ,       \* thread -> the call it runs and its arguments
    snap,       \* history: thread -> the cache state when it took the lock
    world,      \* the OSM data around the location: what the fetches return
    layers,     \* the layer list the last build_layers call returned
    crop,       \* the crop bounds the last build_layers call returned
    built,      \* the last build_layers call: its arguments and its locals
    style,      \* PosterRenderer.style : the StyleConfig fields the renderer
                \* reads (enable_layer_cache is an input of each build)
    theme,      \* PosterRenderer.theme : colour key -> colour
    road,       \* the last classify_edge call: its argument and its RoadStyle
    drawn,      \* the last render_layers call: what was drawn on the axes
    post,       \* the last two apply_raster_effects calls and their outcomes
    saved,      \* the save step of the last render call and its outcome
    run,        \* the PosterRenderer.render call in progress: its position,
                \* what it fetched, its figure and the steps it completed
    batch       \* _process_batch: the cities, the futures and the counters

cacheVars == <<cache, order, stats>>
histVars == <<fill, insertedAt>>
threadVars == <<lock, pc, targ, snap>>
renderVars == <<style, theme, road, drawn, post, saved>>
jobVars == <<run, batch>>
buildVars == <<world, layers, crop, built, renderVars, jobVars>>
vars ==
    <<cache, order, stats, now, last, calls, used, fill, insertedAt,
      lock, pc, targ, snap, world, layers, crop, built,
      style, theme, road, drawn, post, saved, run, batch>>

\* ------------------------------------------------------------------------
\* Values
\* ------------------------------------------------------------------------
None == <<>>
Some(v) == <<v>>

\* Keys "lat_lon_dist" used by the callers of the cache.
NoKey == <<0, 0, 0>>

\* Cache keys are opaque strings, so callers introduce them in a fixed order:
\* a call uses a key some earlier call used, or the first key not used yet.
KeyAt(i) == <<5220000 + i, 2100000, 100000>>
Keys == { KeyAt(i) : i \in 0 .. NumKeys - 1 }

Threads == 1 .. NumThreads

\* Payloads handed to set: the bundle (abstracted to an identity) and the
\* number of bytes _estimate_entry_size reports for it.
Payloads ==
    { [data |-> 1, size |-> SmallSize],
      [data |-> 2, size |-> LargeSize] }

NoPayload == [data |-> 0, size |-> 0, cached_at |-> 0]

\* payload["cached_at"] = time.time()
Stamp(payload, t) ==
    [data |-> payload.data, size |-> payload.size, cached_at |-> t]

Range(s) == { s[i] : i \in DOMAIN s }

SeqRemove(s, x) == SelectSeq(s, LAMBDA y : y # x)

Restrict(f, D) == [x \in D |-> f[x]]

\* ------------------------------------------------------------------------
\* LayerCache
\* ------------------------------------------------------------------------
InitStats ==
    [hits |-> 0, misses |-> 0, evictions |-> 0, expired |-> 0,
     memory_evictions |-> 0]

EstimateEntrySize(payload) == payload.size

RECURSIVE SumSizes(_, _)
SumSizes(c, D) ==
    IF D = {} THEN 0
    ELSE LET k == CHOOSE x \in D : TRUE
         IN EstimateEntrySize(c[k]) + SumSizes(c, D \ {k})

GetTotalSize(c) == SumSizes(c, DOMAIN c)

EvictOldest_Newest(st, counter) ==
    LET newest == st.order[Len(st.order)]
    IN [cache |-> Restrict(st.cache, DOMAIN st.cache \ {newest}),
        order |-> SubSeq(st.order, 1, Len(st.order) - 1),
        stats |-> [st.stats EXCEPT ![counter] = @ + 1]]

\* One iteration of an eviction loop: oldest = _order.pop(0);
\* _cache.pop(oldest, None); _stats[counter] += 1
EvictOldest(st, counter) ==
    LET oldest == Head(st.order)
    IN [cache |-> Restrict(st.cache, DOMAIN st.cache \ {oldest}),
        order |-> Tail(st.order),
        stats |-> [st.stats EXCEPT ![counter] = @ + 1]]

CountLimitReached_OffByOne(st) == Len(st.order) > MAX_ENTRIES

CountLimitReached(st) == Len(st.order) >= MAX_ENTRIES

\* while len(self._order) >= self.MAX_ENTRIES: evict oldest
RECURSIVE EvictForCount(_)
EvictForCount(st) ==
    IF CountLimitReached(st)
    THEN EvictForCount(EvictOldest(st, "evictions"))
    ELSE st

MemoryLimitExceeded(st) ==
    GetTotalSize(st.cache) > MAX_BYTES /\ st.order # <<>>

\* while current_size > self.MAX_BYTES and self._order: evict oldest
RECURSIVE EvictForMemory(_)
EvictForMemory(st) ==
    IF MemoryLimitExceeded(st)
    THEN EvictForMemory(EvictOldest(st, "memory_evictions"))
    ELSE st

Insert_OrderOnly(st, k, payload, t) ==
    [cache |-> st.cache, order |-> Append(st.order, k), stats |-> st.stats]

\* payload["cached_at"] = time.time(); _cache[key] = payload;
\* _order.append(key)
Insert(st, k, payload, t) ==
    [cache |-> [x \in DOMAIN st.cache \cup {k} |->
                   IF x = k THEN Stamp(payload, t) ELSE st.cache[x]],
     order |-> Append(st.order, k),
     stats |-> st.stats]

IsPresent_Never(st, k) == FALSE

IsPresent(st, k) == k \in DOMAIN st.cache

SetResult_Overwrite(st, k, payload, t) ==
    Insert(EvictForMemory(EvictForCount(st)), k, payload, t)

\* The body of LayerCache.set under the lock.
SetResult(st, k, payload, t) ==
    IF IsPresent(st, k) THEN st
    ELSE Insert(EvictForMemory(EvictForCount(st)), k, payload, t)

IsExpired_AtTTL(entry, t) ==
    entry.cached_at # 0 /\ t - entry.cached_at >= TTL_SECONDS

IsExpired(entry, t) ==
    entry.cached_at # 0 /\ t - entry.cached_at > TTL_SECONDS

DropExpired_KeepEntry(st, k) ==
    [st EXCEPT !.stats.expired = @ + 1]

\* The expired branch of LayerCache.get.
DropExpired(st, k) ==
    [cache |-> Restrict(st.cache, DOMAIN st.cache \ {k}),
     order |-> IF k \in Range(st.order) THEN SeqRemove(st.order, k)
               ELSE st.order,
     stats |-> [st.stats EXCEPT !.expired = @ + 1]]

\* The body of LayerCache.get under the lock: the new cache state and the
\* returned value.
GetResult(st, k, t) ==
    IF ~ IsPresent(st, k)
    THEN [st |-> [st EXCEPT !.stats.misses = @ + 1], value |-> None]
    ELSE IF IsExpired(st.cache[k], t)
    THEN [st |-> DropExpired(st, k), value |-> None]
    ELSE [st |-> [st EXCEPT !.stats.hits = @ + 1],
          value |-> Some(st.cache[k])]

ClearResult_NoCount(st) ==
    [st |-> [cache |-> << >>, order |-> << >>, stats |-> st.stats],
     count |-> 0]

\* The body of LayerCache.clear under the lock.
ClearResult(st) ==
    [st |-> [cache |-> << >>, order |-> << >>, stats |-> st.stats],
     count |-> Cardinality(DOMAIN st.cache)]

State == [cache |-> cache, order |-> order, stats |-> stats]

EmptyState == [cache |-> << >>, order |-> << >>, stats |-> InitStats]

NoCalls ==
    [get |-> 0, set |-> 0, clear |-> 0, tick |-> 0, build |-> 0,
     render |-> 0, apply |-> 0, save |-> 0]

NoCall == [op |-> "none", key |-> NoKey, payload |-> NoPayload]

NoSnap == [st |-> EmptyState, now |-> 0]

\* ------------------------------------------------------------------------
\* Fetched geometry.  A feature table is None or a table with its columns
\* and its rows; a row is its geometry type, its OSM tag and, for a park,
\* whether the water polygons cover it entirely.  An edge row is its highway
\* value: a string, a list of strings or None.
\* ------------------------------------------------------------------------
PolygonTypes == {"Polygon", "MultiPolygon"}
LineTypes == {"LineString", "MultiLineString"}

Feature(geom, tag, covered) == [geom |-> geom, tag |-> tag, covered |-> covered]

Table(cols, rows) == Some([cols |-> cols, rows |-> rows])

SmallSubsets(S) == { R \in SUBSET S : Cardinality(R) <= MaxRows }

Lake == Feature("Polygon", "", FALSE)
River == Feature("LineString", "river", FALSE)
Canal == Feature("MultiLineString", "canal", FALSE)
Ditch == Feature("LineString", "ditch", FALSE)

WaterTables ==
    {None}
    \cup { Table({"geometry", "waterway"}, R) :
             R \in { {}, {Lake}, {River}, {Lake, River}, {Canal, Ditch} } }
    \cup { Table({"geometry"}, R) :
             R \in { {Feature("LineString", "", FALSE)},
                     {Feature("MultiPolygon", "", FALSE),
                      Feature("LineString", "", FALSE)} } }

ParkTables ==
    {None}
    \cup { Table({"geometry"}, {r}) :
             r \in { Feature("Polygon", "", FALSE), Feature("Polygon", "", TRUE),
                     Feature("Point", "", FALSE) } }

RailwayTables ==
    {None}
    \cup { Table({"geometry"}, {r}) :
             r \in { Feature("LineString", "", FALSE),
                     Feature("Polygon", "", FALSE) } }

Str(tag) == [kind |-> "str", tags |-> <<tag>>]
List(tags) == [kind |-> "list", tags |-> tags]
Absent == [kind |-> "none", tags |-> << >>]

HighwayValues ==
    { Str("motorway"), Str("trunk"), Str("secondary"), Str("tertiary"),
      Str("living_street"), Str("footway"), Str("service"),
      List(<<"primary", "residential">>), Absent }

EdgeTables ==
    { Table({"geometry", "highway"}, { [highway |-> h] : h \in H }) :
        H \in SmallSubsets(HighwayValues) }
    \cup { Table({"geometry"}, { [highway |-> Absent] }) }

Worlds ==
    [edges : EdgeTables, water : WaterTables, parks : ParkTables,
     railways : RailwayTables]

\* A few locations for the renders that repeat.
BuildWorlds ==
    [edges : { Table({"geometry", "highway"},
                     { [highway |-> Str("motorway")],
                       [highway |-> Str("footway")] }),
               Table({"geometry"}, { [highway |-> Absent] }) },
     water : { None, Table({"geometry", "waterway"}, {Lake, River}) },
     parks : { None, Table({"geometry"}, {Feature("Polygon", "", FALSE)}) },
     railways : { None,
                  Table({"geometry"}, {Feature("LineString", "", FALSE)}) }]

NoWorld ==
    [edges |-> Table({}, {}), water |-> None, parks |-> None,
     railways |-> None]

\* Centre points (lat, lon) in 1e-6 degrees, distances in 0.01 m and
\* figure sizes (width, height) in inches.
Requests ==
    { [point |-> <<52200001, 21000000>>, fig |-> <<12, 16>>, dist |-> 1000000],
      [point |-> <<52200004, 21000000>>, fig |-> <<16, 12>>, dist |-> 1000000] }

\* ------------------------------------------------------------------------
\* PosterRenderer.build_layers
\* ------------------------------------------------------------------------
\* Z-orders in tenths.
ZOrder ==
    [WATER |-> 10, WATERWAYS |-> 20, PARKS |-> 30, PATHS |-> 35,
     ROADS |-> 40, RAILWAYS |-> 80, GRADIENT |-> 100, TEXT |-> 1000]

HIGHWAY_CLASS_MAP ==
    [tag \in {"motorway", "motorway_link", "trunk", "trunk_link", "primary",
              "primary_link", "secondary", "secondary_link", "tertiary",
              "tertiary_link", "residential", "living_street",
              "unclassified", "footway", "path", "bridleway", "cycleway",
              "pedestrian", "track", "steps"} |->
        CASE tag \in {"motorway", "motorway_link"} -> "motorway"
          [] tag \in {"trunk", "trunk_link", "primary", "primary_link"}
                -> "primary"
          [] tag \in {"secondary", "secondary_link"} -> "secondary"
          [] tag \in {"tertiary", "tertiary_link"} -> "tertiary"
          [] tag \in {"residential", "living_street", "unclassified"}
                -> "residential"
          [] OTHER -> "path"]

\* round(x, n) of a number given in tenths of the rounding unit: the
\* nearest unit, a tie going to the even one.
Round(x) ==
    LET q == x \div 10
        r == x % 10
    IN IF r < 5 THEN q
       ELSE IF r > 5 THEN q + 1
       ELSE IF q % 2 = 0 THEN q ELSE q + 1

\* f"{lat:.5f}_{lon:.5f}_{dist:.1f}" of the rounded numbers
FormatCacheKey(point, compensated_dist) ==
    <<Round(point[1]), Round(point[2]), Round(compensated_dist)>>

\* x is not None and not x.empty
IsUsable(t) == t # None /\ t[1].rows # {}

\* t[t.geometry.type.isin(types)]
OfTypes(t, types) ==
    Some([t[1] EXCEPT !.rows = { r \in @ : r.geom \in types }])

\* parks_polys.geometry.difference(water_union), empty geometries removed
SubtractWater(t) ==
    Some([t[1] EXCEPT !.rows = { r \in @ : ~ r.covered }])

\* half extents are fractions num / den of the distance unit
GetCropLimits(point, fig, dist) ==
    LET fig_width == fig[1]
        fig_height == fig[2]
        landscape == fig_width > fig_height     \* aspect > 1
    IN [center_x |-> point[2],
        center_y |-> point[1],
        half_x |-> IF landscape THEN [num |-> dist, den |-> 1]
                   ELSE [num |-> dist * fig_width, den |-> fig_height],
        half_y |-> IF landscape
                   THEN [num |-> dist * fig_height, den |-> fig_width]
                   ELSE [num |-> dist, den |-> 1]]

NoCrop ==
    [center_x |-> 0, center_y |-> 0, half_x |-> [num |-> 0, den |-> 1],
     half_y |-> [num |-> 0, den |-> 1]]

\* The miss branch of build_layers: project, split and crop.
PrepareBundle(w, point, fig, dist) ==
    LET water_polys ==
            IF IsUsable(w.water) THEN OfTypes(w.water, PolygonTypes) ELSE None
        waterways ==
            IF IsUsable(w.water) THEN OfTypes(w.water, LineTypes) ELSE None
        parks_only ==
            IF IsUsable(w.parks) THEN OfTypes(w.parks, PolygonTypes) ELSE None
        parks_polys ==
            IF IsUsable(parks_only) /\ IsUsable(water_polys)
            THEN SubtractWater(parks_only) ELSE parks_only
        railways_lines ==
            IF IsUsable(w.railways) THEN OfTypes(w.railways, LineTypes)
            ELSE None
    IN [water |-> water_polys, waterways |-> waterways,
        parks |-> parks_polys, railways |-> railways_lines,
        edges |-> w.edges, crop |-> GetCropLimits(point, fig, dist)]

\* The projection and geometry calls of the miss branch, by name.
ProjectionWork(w) ==
    LET water_polys ==
            IF IsUsable(w.water) THEN OfTypes(w.water, PolygonTypes) ELSE None
        waterways ==
            IF IsUsable(w.water) THEN OfTypes(w.water, LineTypes) ELSE None
        parks_only ==
            IF IsUsable(w.parks) THEN OfTypes(w.parks, PolygonTypes) ELSE None
        railways_lines ==
            IF IsUsable(w.railways) THEN OfTypes(w.railways, LineTypes)
            ELSE None
    IN {"project_graph", "graph_to_gdfs", "get_crop_limits"}
       \cup (IF IsUsable(water_polys) THEN {"project_gdf water"} ELSE {})
       \cup (IF IsUsable(waterways) THEN {"project_gdf waterways"} ELSE {})
       \cup (IF IsUsable(parks_only) THEN {"project_gdf parks"} ELSE {})
       \cup (IF IsUsable(railways_lines) THEN {"project_gdf railways"}
             ELSE {})

WorkDone_Always(hit, w) == ProjectionWork(w)

\* if cached: ... else: the miss branch
WorkDone(hit, w) == IF hit THEN {} ELSE ProjectionWork(w)

\* edges_gdf["road_class"] = ... assigned on the frame the cache holds
CachedEdgesAfter_NoCopy(edges) ==
    Some([edges[1] EXCEPT !.cols = @ \cup {"road_class"}])

\* edges_gdf = edges_gdf.copy() comes first: the road_class column is
\* assigned on the copy, and the frame the cache holds stays as it is.
CachedEdgesAfter(edges) == edges

NormalizeHighway(h) ==
    IF h.kind = "list"
    THEN IF h.tags # << >> THEN h.tags[1] ELSE "unclassified"
    ELSE IF h.kind = "none" THEN "unclassified"
    ELSE h.tags[1]

\* .map(self._normalize_highway).map(HIGHWAY_CLASS_MAP).fillna("default")
RoadClass(h) ==
    LET tag == NormalizeHighway(h)
    IN IF tag \in DOMAIN HIGHWAY_CLASS_MAP THEN HIGHWAY_CLASS_MAP[tag]
       ELSE "default"

\* ------------------------------------------------------------------------
\* Theme, StyleConfig and PosterRenderer.classify_edge
\* ------------------------------------------------------------------------
\* Widths and strengths in hundredths.
ROAD_WIDTH_DEFAULT == 40

\* d.get(k, default)
DictGet(d, k, default) == IF k \in DOMAIN d THEN d[k] ELSE default

REQUIRED_THEME_KEYS ==
    {"name", "bg", "text", "gradient_color", "water", "parks",
     "road_motorway", "road_primary", "road_secondary", "road_tertiary",
     "road_residential", "road_default"}

\* A theme file: every colour is named after the theme and its key.
LoadTheme(theme_name, optional_keys) ==
    [k \in REQUIRED_THEME_KEYS \cup optional_keys |-> theme_name \o "." \o k]

Themes ==
    { LoadTheme("noir", {}), LoadTheme("atlas", {"road_path", "railway"}) }

DefaultCoreWidths ==
    [motorway |-> 120, primary |-> 100, secondary |-> 80, tertiary |-> 60,
     default |-> ROAD_WIDTH_DEFAULT]

DefaultCasingWidths ==
    [motorway |-> 180, primary |-> 150, secondary |-> 120, tertiary |-> 90,
     default |-> 60]

\* StyleConfig()
StyleConfig ==
    [road_core_widths |-> DefaultCoreWidths,
     road_casing_widths |-> DefaultCasingWidths,
     road_glow_strength |-> 0,
     texture_strength |-> 0, grain_strength |-> 0, vignette_strength |-> 0,
     color_grading_strength |-> 0,
     paper_texture_path |-> None, seed |-> None]

\* PRESET_STYLES["noir"]
NoirStyle ==
    [StyleConfig EXCEPT !.road_glow_strength = 20, !.grain_strength = 8,
                        !.vignette_strength = 15]

\* The width maps of the presets and of style packs.
CoreWidthMaps ==
    { DefaultCoreWidths,
      [motorway |-> 150, residential |-> 50, path |-> 20],
      [default |-> 30] }

CasingWidthMaps ==
    { DefaultCasingWidths,
      [motorway |-> 0, primary |-> 0, secondary |-> 0, tertiary |-> 0,
       default |-> 0],
      [residential |-> 70, path |-> 35],
      [primary |-> 160] }

ClassifyStyles ==
    { [StyleConfig EXCEPT !.road_core_widths = core,
                          !.road_casing_widths = casing,
                          !.road_glow_strength = glow] :
        core \in CoreWidthMaps, casing \in CasingWidthMaps,
        glow \in {0, 20, 60} }

ThemeColor(th, road_class) ==
    IF road_class = "motorway" THEN th["road_motorway"]
    ELSE IF road_class = "primary" THEN th["road_primary"]
    ELSE IF road_class = "secondary" THEN th["road_secondary"]
    ELSE IF road_class = "tertiary" THEN th["road_tertiary"]
    ELSE IF road_class = "residential" THEN th["road_residential"]
    ELSE th["road_default"]

CoreWidth(st, road_class) ==
    DictGet(st.road_core_widths, road_class, ROAD_WIDTH_DEFAULT)

CasingWidth_FixedDefault(st, road_class, core_width) ==
    DictGet(st.road_casing_widths, road_class, ROAD_WIDTH_DEFAULT)

CasingWidth(st, road_class, core_width) ==
    DictGet(st.road_casing_widths, road_class, core_width)

GlowStrength_AllClasses(st, road_class) == st.road_glow_strength

GlowStrength(st, road_class) ==
    IF road_class \in {"motorway", "primary"} THEN st.road_glow_strength
    ELSE 0

ClassifyEdge(highway, th, st) ==
    LET road_class == RoadClass(highway)
        core_width == CoreWidth(st, road_class)
    IN [road_class |-> road_class,
        core_color |-> ThemeColor(th, road_class),
        core_width |-> core_width,
        casing_color |-> th["bg"],
        casing_width |-> CasingWidth(st, road_class, core_width),
        glow_strength |-> GlowStrength(st, road_class)]

NoRoad == [highway |-> Absent, result |-> None]

NoDrawn ==
    [requested |-> "", backend |-> "", importable |-> FALSE,
     handled |-> FALSE, input |-> << >>, ops |-> << >>, limits |-> NoCrop]

NoPost == << >>

NoSaved ==
    [fmt |-> "", applied |-> FALSE, call |-> [raised |-> "", value |-> None],
     raised |-> "", file |-> None]

NoRun ==
    [pc |-> "idle", count |-> 0, req |-> << >>, fmt |-> "",
     fetched |-> [edges |-> None, water |-> None, parks |-> None,
                  railways |-> None],
     errors |-> {}, fig |-> "none", trace |-> << >>, overlay |-> << >>,
     raised |-> "",
     \* history: the calls made when this render started
     before |-> [build |-> 0, save |-> 0]]

NoBatch ==
    [pc |-> "idle", cities |-> << >>, futures |-> << >>, collected |-> {},
     success_count |-> 0, failure_count |-> 0, exit |-> None]

JobsIdle ==
    /\ run = NoRun
    /\ batch = NoBatch

RenderIdle(styles, themes) ==
    /\ style \in styles
    /\ theme \in themes
    /\ road = NoRoad
    /\ drawn = NoDrawn
    /\ post = NoPost
    /\ saved = NoSaved

class_order ==
    <<"path", "default", "residential", "tertiary", "secondary", "primary",
      "motorway">>

\* RenderLayer(name, zorder, gdf, style); kind is the block that emits it.
Layer(name, kind, zorder, rows, layer_style) ==
    [name |-> name, kind |-> kind, zorder |-> zorder, rows |-> rows,
     style |-> layer_style]

Dotted == <<0, <<1, 2>>>>

Dashed == <<0, <<5, 3>>>>

WaterLayers(b) ==
    IF IsUsable(b.water)
    THEN <<Layer("water", "water", ZOrder.WATER, b.water[1].rows,
                 [facecolor |-> theme["water"], edgecolor |-> "none"])>>
    ELSE << >>

waterway_widths == <<"river", "canal", "stream">>

WaterwayWidth == [river |-> 150, canal |-> 120, stream |-> 80]

default_width == 80

RECURSIVE WaterwayTypeLayers(_, _)
WaterwayTypeLayers(rows, i) ==
    IF i > Len(waterway_widths) THEN << >>
    ELSE LET type_waterways == { r \in rows : r.tag = waterway_widths[i] }
         IN (IF type_waterways # {}
             THEN <<Layer("waterways_" \o waterway_widths[i], "waterways",
                          ZOrder.WATERWAYS, type_waterways,
                          [color |-> theme["water"],
                           linewidth |-> WaterwayWidth[waterway_widths[i]]])>>
             ELSE << >>)
            \o WaterwayTypeLayers(rows, i + 1)

WaterwayLayers(b) ==
    IF ~ IsUsable(b.waterways) THEN << >>
    ELSE IF "waterway" \in b.waterways[1].cols
    THEN LET rows == b.waterways[1].rows
             other_waterways ==
                 { r \in rows : r.tag \notin Range(waterway_widths) }
         IN WaterwayTypeLayers(rows, 1)
            \o (IF other_waterways # {}
                THEN <<Layer("waterways_other", "waterways",
                             ZOrder.WATERWAYS, other_waterways,
                             [color |-> theme["water"],
                              linewidth |-> default_width])>>
                ELSE << >>)
    ELSE <<Layer("waterways", "waterways", ZOrder.WATERWAYS,
                 b.waterways[1].rows,
                 [color |-> theme["water"], linewidth |-> default_width])>>

ParkLayers(b) ==
    IF IsUsable(b.parks)
    THEN <<Layer("parks", "parks", ZOrder.PARKS, b.parks[1].rows,
                 [facecolor |-> theme["parks"], edgecolor |-> "none"])>>
    ELSE << >>

\* edges_gdf.empty or "highway" not in edges_gdf.columns
NoRoadData(edges) ==
    edges[1].rows = {} \/ "highway" \notin edges[1].cols

IsPathClass_Never(road_class) == FALSE

\* if road_class == "path": a dotted core and no casing
IsPathClass(road_class) == road_class = "path"

RoadClassLayers_StepOne(edges, index) ==
    LET road_class == class_order[index + 1]
        class_edges == { r \in edges[1].rows : RoadClass(r.highway) = road_class }
        casing_zorder == ZOrder.ROADS + index * 10
        core_zorder == ZOrder.ROADS + index * 10 + 10
    IN IF class_edges = {} THEN << >>
       ELSE LET first == CHOOSE r \in class_edges : TRUE
                road_style == ClassifyEdge(first.highway, theme, style)
            IN IF IsPathClass(road_class)
               THEN <<Layer("roads_" \o road_class \o "_core", "roads",
                            ZOrder.PATHS, class_edges,
                            [color |-> DictGet(theme, "road_path",
                                               road_style.core_color),
                             linewidth |-> road_style.core_width,
                             linestyle |-> Dotted, glow |-> 0])>>
               ELSE <<Layer("roads_" \o road_class \o "_casing", "roads",
                            casing_zorder, class_edges,
                            [color |-> road_style.casing_color,
                             linewidth |-> road_style.casing_width,
                             glow |-> 0]),
                      Layer("roads_" \o road_class \o "_core", "roads",
                            core_zorder, class_edges,
                            [color |-> road_style.core_color,
                             linewidth |-> road_style.core_width,
                             glow |-> road_style.glow_strength])>>

\* One iteration of the loop over class_order; index counts from 0.
RoadClassLayers(edges, index) ==
    LET road_class == class_order[index + 1]
        class_edges == { r \in edges[1].rows : RoadClass(r.highway) = road_class }
        casing_zorder == ZOrder.ROADS + index * 20
        core_zorder == ZOrder.ROADS + index * 20 + 10
    IN IF class_edges = {} THEN << >>
       ELSE LET first == CHOOSE r \in class_edges : TRUE
                road_style == ClassifyEdge(first.highway, theme, style)
            IN IF IsPathClass(road_class)
               THEN <<Layer("roads_" \o road_class \o "_core", "roads",
                            ZOrder.PATHS, class_edges,
                            [color |-> DictGet(theme, "road_path",
                                               road_style.core_color),
                             linewidth |-> road_style.core_width,
                             linestyle |-> Dotted, glow |-> 0])>>
               ELSE <<Layer("roads_" \o road_class \o "_casing", "roads",
                            casing_zorder, class_edges,
                            [color |-> road_style.casing_color,
                             linewidth |-> road_style.casing_width,
                             glow |-> 0]),
                      Layer("roads_" \o road_class \o "_core", "roads",
                            core_zorder, class_edges,
                            [color |-> road_style.core_color,
                             linewidth |-> road_style.core_width,
                             glow |-> road_style.glow_strength])>>

RECURSIVE RoadLayers(_, _)
RoadLayers(edges, index) ==
    IF index >= Len(class_order) THEN << >>
    ELSE RoadClassLayers(edges, index) \o RoadLayers(edges, index + 1)

RailwayLayers(b) ==
    IF IsUsable(b.railways)
    THEN <<Layer("railways", "railways", ZOrder.RAILWAYS, b.railways[1].rows,
                 [color |-> DictGet(theme, "railway",
                                    DictGet(theme, "road_secondary",
                                            "#555555")),
                  linewidth |-> 80, linestyle |-> Dashed])>>
    ELSE << >>

\* The layer list build_layers returns for the prepared bundle b.
EmitLayers(b) ==
    LET first == WaterLayers(b) \o WaterwayLayers(b) \o ParkLayers(b)
    IN IF NoRoadData(b.edges) THEN first
       ELSE first \o RoadLayers(b.edges, 0) \o RailwayLayers(b)

\* What post_process adds to the axes: the two gradient fades, then the
\* typography.
PostProcessOps ==
    <<[what |-> "gradient_bottom", zorder |-> ZOrder.GRADIENT],
      [what |-> "gradient_top", zorder |-> ZOrder.GRADIENT],
      [what |-> "typography", zorder |-> ZOrder.TEXT]>>

\* ------------------------------------------------------------------------
\* Render backends and PosterRenderer.render_layers
\* ------------------------------------------------------------------------
RoadNames(suffix) ==
    { "roads_" \o c \o suffix : c \in Range(class_order) }

\* Tests on the names build_layers gives its layers.
\* layer.name.startswith("roads_") and "roads_" in layer.name
IsRoadName(name) == name \in RoadNames("_casing") \cup RoadNames("_core")

\* "_casing" in layer.name
IsCasingName(name) == name \in RoadNames("_casing")

\* "_core" in layer.name
IsCoreName(name) == name \in RoadNames("_core")

RECURSIVE InsertByZ(_, _)
InsertByZ(sorted, x) ==
    IF sorted = << >> THEN <<x>>
    ELSE IF Head(sorted).zorder <= x.zorder
    THEN <<Head(sorted)>> \o InsertByZ(Tail(sorted), x)
    ELSE <<x>> \o sorted

\* sorted(layers, key=lambda item: item.zorder): stable
RECURSIVE SortedByZ(_)
SortedByZ(ls) ==
    IF ls = << >> THEN << >>
    ELSE InsertByZ(SortedByZ(SubSeq(ls, 1, Len(ls) - 1)), ls[Len(ls)])

\* One call on the axes.
Op(by, what, layer) ==
    [by |-> by, what |-> what, name |-> layer.name, zorder |-> layer.zorder]

AxesOp(what) == [by |-> "default", what |-> what, name |-> "", zorder |-> 0]

GlowOp_AtCore(layer) ==
    [by |-> "datashader", what |-> "glow", name |-> layer.name,
     zorder |-> layer.zorder]

\* ax.imshow(..., zorder=layer.zorder - 0.1, alpha=glow_alpha)
GlowOp(layer) ==
    [by |-> "datashader", what |-> "glow", name |-> layer.name,
     zorder |-> layer.zorder - 1]

BACKEND_REGISTRY == {"matplotlib", "datashader"}

\* BACKEND_REGISTRY[name], a KeyError for a name that is not registered
get_backend_NoFallback(name) ==
    IF name \in BACKEND_REGISTRY THEN name ELSE "KeyError"

get_backend(name) ==
    IF name \in BACKEND_REGISTRY THEN name ELSE "matplotlib"

\* DatashaderBackend._render_glow, then _render_layer, for each core layer
RECURSIVE CoreOps(_)
CoreOps(core_layers) ==
    IF core_layers = << >> THEN << >>
    ELSE LET layer == Head(core_layers)
             glow_strength == DictGet(layer.style, "glow", 0)
         IN (IF layer.rows = {} THEN << >>
             ELSE (IF glow_strength > 0
                   THEN <<GlowOp(layer)>> ELSE << >>)
                  \o <<Op("datashader", "layer", layer)>>)
            \o CoreOps(Tail(core_layers))

\* render_roads of the backend: whether it handled the roads, and its draws
RenderRoads(backend, importable, ls) ==
    IF backend = "matplotlib" \/ ~ importable
    THEN [handled |-> FALSE, ops |-> << >>]
    ELSE LET road_layers == SelectSeq(ls, LAMBDA l : IsRoadName(l.name))
             sorted_layers == SortedByZ(road_layers)
             casing_layers ==
                 SelectSeq(sorted_layers,
                           LAMBDA l : IsCasingName(l.name) /\ l.rows # {})
             core_layers ==
                 SelectSeq(sorted_layers, LAMBDA l : IsCoreName(l.name))
         IN [handled |-> TRUE,
             ops |-> [i \in DOMAIN casing_layers |->
                         Op("datashader", "layer", casing_layers[i])]
                     \o CoreOps(core_layers)]

DefaultLayers_All(handled, ls) == ls

\* layers = [layer for layer in layers if "roads_" not in layer.name]
DefaultLayers(handled, ls) ==
    IF handled THEN SelectSeq(ls, LAMBDA l : ~ IsRoadName(l.name)) ELSE ls

\* The default per-layer path: gdf.plot for each layer, with path effects
\* for a line layer that glows.
RECURSIVE DefaultOps(_)
DefaultOps(ls) ==
    IF ls = << >> THEN << >>
    ELSE LET layer == Head(ls)
             is_line == "linewidth" \in DOMAIN layer.style
         IN <<Op("default", "layer", layer)>>
            \o (IF is_line /\ DictGet(layer.style, "glow", 0) > 0
                THEN <<Op("default", "path_effects", layer)>> ELSE << >>)
            \o DefaultOps(Tail(ls))

RenderLayersResult(render_backend, importable, ls, crop_limits) ==
    LET backend == get_backend(render_backend)
        roads == RenderRoads(backend, importable, ls)
        rest == SortedByZ(DefaultLayers(roads.handled, ls))
    IN [requested |-> render_backend,
        backend |-> backend,
        importable |-> importable,
        handled |-> roads.handled,
        input |-> ls,
        ops |-> roads.ops \o DefaultOps(rest)
                \o <<AxesOp("set_aspect"), AxesOp("set_xlim"),
                     AxesOp("set_ylim")>>,
        limits |-> crop_limits]

\* ------------------------------------------------------------------------
\* Raster post-processing (postprocess.py)
\* ------------------------------------------------------------------------
\* A PIL image: its pixel data is the data of its source and the effects
\* composited on it, in order.
Image(mode, size, base) ==
    [type |-> "Image", mode |-> mode, size |-> size, base |-> base,
     effects |-> << >>]

\* What plt.savefig wrote to the buffer, opened again.
FigureImage == Image("RGBA", <<3600, 4800>>, "figure")

Images == { FigureImage, Image("RGB", <<50, 50>>, "photo") }

\* np.array(image): the channels and their values
PixelData(image) ==
    [mode |-> image.mode, size |-> image.size, base |-> image.base,
     effects |-> image.effects]

\* image.convert("RGBA")
ConvertRGBA(image) == [image EXCEPT !.mode = "RGBA"]

Composite(image, effect) == [image EXCEPT !.effects = Append(@, effect)]

\* The texture files that exist on disk.
TextureFiles == {"paper.png"}

TexturePaths == { None, Some(""), Some("paper.png"), Some("missing.png") }

Seeds == { None, Some(42) }

\* What the operating system's entropy gives an unseeded generator.
Entropies == {1, 2}

EffectStrengths == {0, 50}

RasterStyles ==
    { [StyleConfig EXCEPT !.grain_strength = g, !.vignette_strength = v,
                          !.texture_strength = t,
                          !.color_grading_strength = c,
                          !.paper_texture_path = path, !.seed = seed] :
        g \in EffectStrengths, v \in EffectStrengths, t \in EffectStrengths,
        c \in EffectStrengths, path \in TexturePaths, seed \in Seeds }

\* bool(style.paper_texture_path)
Truthy(path) == path # None /\ path # Some("")

Generator_Unseeded(seed, entropy) == [seeded |-> FALSE, state |-> entropy]

\* np.random.default_rng(seed)
Generator(seed, entropy) ==
    IF seed # None THEN [seeded |-> TRUE, state |-> seed[1]]
    ELSE [seeded |-> FALSE, state |-> entropy]

ApplyGrain(image, strength, seed, entropy) ==
    Composite(image, [name |-> "grain", strength |-> strength,
                      noise |-> Generator(seed, entropy)])

ApplyVignette(image, strength) ==
    Composite(image, [name |-> "vignette", strength |-> strength])

\* Image.open(texture_path) raises when the file is missing.
TextureOpens(texture_path) == texture_path \in TextureFiles

ApplyTexture(image, texture_path, strength) ==
    Composite(image, [name |-> "texture", strength |-> strength,
                      path |-> texture_path])

ApplyColorGrading(image, strength) ==
    Composite(image, [name |-> "color_grading", strength |-> strength])

Returns(value) == [raised |-> "", value |-> Some(value)]

Raises(exception) == [raised |-> exception, value |-> None]

\* apply_raster_effects(image, style): what it returns, or what it raises
ApplyRasterEffects(image, st, entropy) ==
    LET converted == ConvertRGBA(image)
        grained ==
            IF st.grain_strength > 0
            THEN ApplyGrain(converted, st.grain_strength, st.seed, entropy)
            ELSE converted
        vignetted ==
            IF st.vignette_strength > 0
            THEN ApplyVignette(grained, st.vignette_strength)
            ELSE grained
        with_texture ==
            st.texture_strength > 0 /\ Truthy(st.paper_texture_path)
        textured ==
            IF with_texture
            THEN ApplyTexture(vignetted, st.paper_texture_path[1],
                              st.texture_strength)
            ELSE vignetted
        graded ==
            IF st.color_grading_strength > 0
            THEN ApplyColorGrading(textured, st.color_grading_strength)
            ELSE textured
    IN IF with_texture /\ ~ TextureOpens(st.paper_texture_path[1])
       THEN Raises("FileNotFoundError")
       ELSE Returns(graded)

needs_raster_postprocessing(fmt, st) ==
    IF fmt # "png" THEN FALSE
    ELSE \E value \in { st.grain_strength, st.vignette_strength,
                        st.texture_strength, st.color_grading_strength } :
            value > 0

\* config.output_format.lower()
Lower == [png |-> "png", PNG |-> "png", svg |-> "svg", pdf |-> "pdf"]

OutputFormats == DOMAIN Lower

\* getattr(obj, name) succeeds
HasAttr(obj, name) == name \in DOMAIN obj

\* The save step of PosterRenderer.render
SaveResult(output_format, st, entropy) ==
    LET fmt == Lower[output_format]
    IN IF needs_raster_postprocessing(fmt, st)
       THEN LET call == ApplyRasterEffects(FigureImage, st, entropy)
            IN IF call.raised # ""
               THEN [fmt |-> fmt, applied |-> TRUE, call |-> call,
                     raised |-> call.raised, file |-> None]
               ELSE IF ~ HasAttr(call.value[1], "effects_applied")
                       \/ ~ HasAttr(call.value[1], "image")
               THEN [fmt |-> fmt, applied |-> TRUE, call |-> call,
                     raised |-> "AttributeError", file |-> None]
               ELSE [fmt |-> fmt, applied |-> TRUE, call |-> call,
                     raised |-> "",
                     file |-> Some([format |-> "PNG",
                                    image |-> call.value[1].image])]
       ELSE [fmt |-> fmt, applied |-> FALSE,
             call |-> [raised |-> "", value |-> None],
             raised |-> "",
             file |-> Some([format |-> fmt, image |-> FigureImage])]

\* The bytes _estimate_entry_size reports for a prepared bundle.
BundleSize(b) == SmallSize

NoBuilt ==
    [key |-> NoKey, enabled |-> FALSE, hit |-> FALSE,
     bundle |-> PrepareBundle(NoWorld, <<0, 0>>, <<1, 1>>, 0),
     work |-> {}, point |-> <<0, 0>>, fig |-> <<1, 1>>]

\* ------------------------------------------------------------------------
\* History variables
\* ------------------------------------------------------------------------
NoFill == [clean |-> FALSE, keys |-> << >>]

FillAfterSet(k) ==
    IF fill.clean /\ k \notin Range(fill.keys)
       /\ Len(fill.keys) <= MAX_ENTRIES
    THEN [fill EXCEPT !.keys = Append(@, k)]
    ELSE NoFill

InsertedAtAfter(st, k, inserted) ==
    [x \in DOMAIN st.cache |->
        IF x = k /\ inserted THEN calls.set + 1 ELSE insertedAt[x]]

\* ------------------------------------------------------------------------
\* Initial state: _init_cache at import time
\* ------------------------------------------------------------------------
Init ==
    /\ cache = << >>
    /\ order = << >>
    /\ stats = InitStats
    /\ now = StartTime
    /\ last = [op |-> "init", key |-> NoKey, arg |-> NoPayload, value |-> None,
               count |-> 0]
    /\ calls = NoCalls
    /\ used = 0
    /\ fill = [clean |-> TRUE, keys |-> << >>]
    /\ insertedAt = << >>
    /\ lock = 0
    /\ pc = [t \in Threads |-> "idle"]
    /\ targ = [t \in Threads |-> NoCall]
    /\ snap = [t \in Threads |-> NoSnap]
    /\ world = NoWorld
    /\ layers = << >>
    /\ crop = NoCrop
    /\ built = NoBuilt
    /\ RenderIdle({StyleConfig}, {LoadTheme("noir", {})})
    /\ JobsIdle

\* ------------------------------------------------------------------------
\* Actions: one per handler, each atomic under LayerCache._lock
\* ------------------------------------------------------------------------
Budget == calls.get + calls.set + calls.clear + calls.tick < MaxCalls

CallerKeys == { KeyAt(i) : i \in 0 .. used } \cap Keys

UsedAfter(k) == IF k = KeyAt(used) THEN used + 1 ELSE used

Get(k) ==
    /\ UNCHANGED buildVars
    /\ Budget
    /\ used' = UsedAfter(k)
    /\ LET r == GetResult(State, k, now)
       IN /\ cache' = r.st.cache
          /\ order' = r.st.order
          /\ stats' = r.st.stats
          /\ last' = [op |-> "get", key |-> k, arg |-> NoPayload,
                      value |-> r.value, count |-> 0]
          /\ fill' = IF r.st.stats.expired # stats.expired THEN NoFill ELSE fill
          /\ insertedAt' = Restrict(insertedAt, DOMAIN r.st.cache)
    /\ calls' = [calls EXCEPT !.get = @ + 1]
    /\ UNCHANGED <<now, threadVars>>

Set(k, payload) ==
    /\ UNCHANGED buildVars
    /\ Budget
    /\ used' = UsedAfter(k)
    /\ LET st == SetResult(State, k, payload, now)
       IN /\ cache' = st.cache
          /\ order' = st.order
          /\ stats' = st.stats
          /\ insertedAt' = InsertedAtAfter(st, k, ~ IsPresent(State, k))
    /\ last' = [op |-> "set", key |-> k, arg |-> Stamp(payload, 0),
                value |-> None, count |-> 0]
    /\ fill' = FillAfterSet(k)
    /\ calls' = [calls EXCEPT !.set = @ + 1]
    /\ UNCHANGED <<now, threadVars>>

Clear ==
    /\ UNCHANGED buildVars
    /\ Budget
    /\ LET r == ClearResult(State)
       IN /\ cache' = r.st.cache
          /\ order' = r.st.order
          /\ stats' = r.st.stats
          /\ last' = [op |-> "clear", key |-> NoKey, arg |-> NoPayload,
                      value |-> None, count |-> r.count]
    /\ fill' = NoFill
    /\ insertedAt' = << >>
    /\ calls' = [calls EXCEPT !.clear = @ + 1]
    /\ UNCHANGED <<now, used, threadVars>>

\* The wall clock advances between calls.
Tick ==
    /\ UNCHANGED buildVars
    /\ Budget
    /\ now' = now + TickStep
    /\ calls' = [calls EXCEPT !.tick = @ + 1]
    /\ last' = [op |-> "tick", key |-> NoKey, arg |-> NoPayload,
                value |-> None, count |-> 0]
    /\ UNCHANGED <<cacheVars, used, histVars, threadVars>>

Next ==
    \/ \E k \in CallerKeys : Get(k)
    \/ \E k \in CallerKeys, payload \in Payloads : Set(k, payload)
    \/ Clear
    \/ Tick

Spec == Init /\ [][Next]_vars

\* The cache after the main thread made n set calls with distinct keys.
RECURSIVE Filled(_, _)
Filled(n, payload) ==
    IF n = 0 THEN EmptyState
    ELSE SetResult(Filled(n - 1, payload), KeyAt(n - 1), payload, StartTime)

\* The worker pool starts on a cache the main thread has used before: some
\* entries stored at StartTime, either just now or more than TTL_SECONDS ago.
InitThreads ==
    /\ \E n \in 0 .. MAX_ENTRIES, payload \in Payloads :
          /\ cache = Filled(n, payload).cache
          /\ order = Filled(n, payload).order
          /\ stats = Filled(n, payload).stats
          /\ used = n
    /\ now \in {StartTime, StartTime + TTL_SECONDS + TickStep}
    /\ last = [op |-> "init", key |-> NoKey, arg |-> NoPayload, value |-> None,
               count |-> 0]
    /\ calls = NoCalls
    /\ fill = NoFill
    /\ insertedAt = << >>
    /\ lock = 0
    /\ pc = [t \in Threads |-> "idle"]
    /\ targ = [t \in Threads |-> NoCall]
    /\ snap = [t \in Threads |-> NoSnap]
    /\ world = NoWorld
    /\ layers = << >>
    /\ crop = NoCrop
    /\ built = NoBuilt
    /\ RenderIdle({StyleConfig}, {LoadTheme("noir", {})})
    /\ JobsIdle

\* ------------------------------------------------------------------------
\* Worker threads: the same handlers, statement by statement, each inside
\* "with self._lock"
\* ------------------------------------------------------------------------
LockFree_Ignored == TRUE

\* threading.Lock: acquired only when no thread holds it
LockFree == lock = 0

Returned(t, value, count) ==
    [op |-> targ[t].op, key |-> targ[t].key,
     arg |-> Stamp(targ[t].payload, 0), value |-> value, count |-> count]

\* Leaving the "with" block: the lock is released and the call returns.
Release(t, value, count) ==
    /\ lock' = 0
    /\ pc' = [pc EXCEPT ![t] = "idle"]
    /\ last' = Returned(t, value, count)
    /\ targ' = [targ EXCEPT ![t] = NoCall]
    /\ snap' = [snap EXCEPT ![t] = NoSnap]

Goto(t, label) ==
    /\ pc' = [pc EXCEPT ![t] = label]
    /\ UNCHANGED <<lock, last, targ, snap>>

SetState(st) ==
    /\ cache' = st.cache
    /\ order' = st.order
    /\ stats' = st.stats

ThreadBudget ==
    calls.get + calls.set + calls.clear + calls.tick < MaxThreadCalls

\* A thread calls get, set or clear.
Call(t, op, k, payload) ==
    /\ UNCHANGED buildVars
    /\ pc[t] = "idle"
    /\ ThreadBudget
    /\ targ' = [targ EXCEPT ![t] = [op |-> op, key |-> k, payload |-> payload]]
    /\ pc' = [pc EXCEPT ![t] = "acquire"]
    /\ calls' = [calls EXCEPT ![op] = @ + 1]
    /\ used' = UsedAfter(k)
    /\ UNCHANGED <<cacheVars, now, last, histVars, lock, snap>>

\* with self._lock:
Acquire(t) ==
    /\ UNCHANGED buildVars
    /\ pc[t] = "acquire"
    /\ LockFree
    /\ lock' = t
    /\ pc' = [pc EXCEPT ![t] = targ[t].op]
    /\ snap' = [snap EXCEPT ![t] = [st |-> State, now |-> now]]
    /\ UNCHANGED <<cacheVars, now, last, calls, used, histVars, targ>>

\* get: cached = self._cache.get(cache_key) ... up to the pop of an expired
\* entry from the index
GetLookup(t) ==
    /\ UNCHANGED buildVars
    /\ pc[t] = "get"
    /\ LET k == targ[t].key
       IN IF ~ IsPresent(State, k)
          THEN /\ SetState([State EXCEPT !.stats.misses = @ + 1])
               /\ Release(t, None, 0)
          ELSE IF IsExpired(cache[k], now)
          THEN /\ SetState([State EXCEPT
                              !.stats.expired = @ + 1,
                              !.cache = Restrict(cache, DOMAIN cache \ {k})])
               /\ Goto(t, "get_remove")
          ELSE /\ SetState([State EXCEPT !.stats.hits = @ + 1])
               /\ Release(t, Some(cache[k]), 0)
    /\ UNCHANGED <<now, calls, used, histVars>>

\* get: if cache_key in self._order: self._order.remove(cache_key)
GetRemove(t) ==
    /\ UNCHANGED buildVars
    /\ pc[t] = "get_remove"
    /\ LET k == targ[t].key
       IN SetState([State EXCEPT
                      !.order = IF k \in Range(order)
                                THEN SeqRemove(order, k) ELSE order])
    /\ Release(t, None, 0)
    /\ UNCHANGED <<now, calls, used, histVars>>

\* set: if cache_key in self._cache: return
SetCheck(t) ==
    /\ UNCHANGED buildVars
    /\ pc[t] = "set"
    /\ IF IsPresent(State, targ[t].key)
       THEN Release(t, None, 0)
       ELSE Goto(t, "set_count")
    /\ UNCHANGED <<cacheVars, now, calls, used, histVars>>

\* set: one test of the count loop, and one iteration when it is true
SetEvictCount(t) ==
    /\ UNCHANGED buildVars
    /\ pc[t] = "set_count"
    /\ IF CountLimitReached(State)
       THEN /\ SetState(EvictOldest(State, "evictions"))
            /\ Goto(t, "set_count")
       ELSE /\ UNCHANGED cacheVars
            /\ Goto(t, "set_memory")
    /\ UNCHANGED <<now, calls, used, histVars>>

\* set: one test of the memory loop, and one iteration when it is true
SetEvictMemory(t) ==
    /\ UNCHANGED buildVars
    /\ pc[t] = "set_memory"
    /\ IF MemoryLimitExceeded(State)
       THEN /\ SetState(EvictOldest(State, "memory_evictions"))
            /\ Goto(t, "set_memory")
       ELSE /\ UNCHANGED cacheVars
            /\ Goto(t, "set_insert")
    /\ UNCHANGED <<now, calls, used, histVars>>

\* set: payload["cached_at"] = time.time(); self._cache[cache_key] = payload
SetStore(t) ==
    /\ UNCHANGED buildVars
    /\ pc[t] = "set_insert"
    /\ SetState([State EXCEPT
                   !.cache = Insert(State, targ[t].key, targ[t].payload,
                                    now).cache])
    /\ Goto(t, "set_append")
    /\ UNCHANGED <<now, calls, used, histVars>>

\* set: self._order.append(cache_key)
SetAppend(t) ==
    /\ UNCHANGED buildVars
    /\ pc[t] = "set_append"
    /\ SetState([State EXCEPT !.order = Append(order, targ[t].key)])
    /\ Release(t, None, 0)
    /\ UNCHANGED <<now, calls, used, histVars>>

\* clear: count = len(self._cache); self._cache.clear()
ClearIndex(t) ==
    /\ UNCHANGED buildVars
    /\ pc[t] = "clear"
    /\ SetState([State EXCEPT !.cache = << >>])
    /\ targ' = [targ EXCEPT ![t].payload.size = Cardinality(DOMAIN cache)]
    /\ pc' = [pc EXCEPT ![t] = "clear_order"]
    /\ UNCHANGED <<now, last, calls, used, histVars, lock, snap>>

\* clear: self._order.clear(); return count
ClearOrder(t) ==
    /\ UNCHANGED buildVars
    /\ pc[t] = "clear_order"
    /\ SetState([State EXCEPT !.order = << >>])
    /\ Release(t, None, targ[t].payload.size)
    /\ UNCHANGED <<now, calls, used, histVars>>

\* The wall clock advances while threads run.
ThreadTick ==
    /\ UNCHANGED buildVars
    /\ ThreadBudget
    /\ now' = now + TickStep
    /\ calls' = [calls EXCEPT !.tick = @ + 1]
    /\ UNCHANGED <<cacheVars, last, used, histVars, threadVars>>

\* A worker asks for the first key used so far, the last one or a new one.
ThreadKeys == { KeyAt(0), KeyAt(used - 1), KeyAt(used) } \cap Keys

NextThreads ==
    \/ \E t \in Threads, k \in ThreadKeys : Call(t, "get", k, NoPayload)
    \/ \E t \in Threads, k \in ThreadKeys, payload \in Payloads :
          Call(t, "set", k, Stamp(payload, 0))
    \/ \E t \in Threads : Call(t, "clear", NoKey, NoPayload)
    \/ \E t \in Threads : Acquire(t)
    \/ \E t \in Threads : GetLookup(t)
    \/ \E t \in Threads : GetRemove(t)
    \/ \E t \in Threads : SetCheck(t)
    \/ \E t \in Threads : SetEvictCount(t)
    \/ \E t \in Threads : SetEvictMemory(t)
    \/ \E t \in Threads : SetStore(t)
    \/ \E t \in Threads : SetAppend(t)
    \/ \E t \in Threads : ClearIndex(t)
    \/ \E t \in Threads : ClearOrder(t)
    \/ ThreadTick

SpecThreads == InitThreads /\ [][NextThreads]_vars

\* ------------------------------------------------------------------------
\* build_layers, with the cache lookups and stores it makes
\* ------------------------------------------------------------------------
InitConfigured(worlds, styles, themes) ==
    /\ cache = << >>
    /\ order = << >>
    /\ stats = InitStats
    /\ now = StartTime
    /\ last = [op |-> "init", key |-> NoKey, arg |-> NoPayload, value |-> None,
               count |-> 0]
    /\ calls = NoCalls
    /\ used = 0
    /\ fill = NoFill
    /\ insertedAt = << >>
    /\ lock = 0
    /\ pc = [t \in Threads |-> "idle"]
    /\ targ = [t \in Threads |-> NoCall]
    /\ snap = [t \in Threads |-> NoSnap]
    /\ world \in worlds
    /\ layers = << >>
    /\ crop = NoCrop
    /\ built = NoBuilt
    /\ RenderIdle(styles, themes)
    /\ JobsIdle

InitWith(worlds) ==
    InitConfigured(worlds, {NoirStyle}, {LoadTheme("noir", {})})

InitBuild == InitWith(BuildWorlds)

InitLayers == InitWith(Worlds)

\* build_layers on the fetched data w
BuildLayersOn(w, point, fig, compensated_dist, enable_layer_cache) ==
    /\ LET cache_key == FormatCacheKey(point, compensated_dist)
           looked == IF enable_layer_cache
                     THEN GetResult(State, cache_key, now)
                     ELSE [st |-> State, value |-> None]
           hit == looked.value # None
           bundle == IF hit THEN looked.value[1].data
                     ELSE PrepareBundle(w, point, fig, compensated_dist)
           stored == IF ~ hit /\ enable_layer_cache
                     THEN SetResult(looked.st, cache_key,
                                    [data |-> bundle, size |-> BundleSize(bundle)],
                                    now)
                     ELSE looked.st
           \* with caching, the local edges_gdf is the frame in the cache
           shared == enable_layer_cache /\ ~ NoRoadData(bundle.edges)
       IN /\ cache' = IF shared
                       THEN [stored.cache EXCEPT
                               ![cache_key].data.edges = CachedEdgesAfter(@)]
                       ELSE stored.cache
          /\ order' = stored.order
          /\ stats' = stored.stats
          /\ layers' = EmitLayers(bundle)
          /\ crop' = bundle.crop
          /\ built' = [key |-> cache_key, enabled |-> enable_layer_cache,
                       hit |-> hit, bundle |-> bundle,
                       work |-> WorkDone(hit, w), point |-> point,
                       fig |-> fig]
          /\ last' = [op |-> "build", key |-> cache_key, arg |-> NoPayload,
                      value |-> None, count |-> 0]
          /\ calls' = [calls EXCEPT
                         !.build = @ + 1,
                         !.get = IF enable_layer_cache THEN @ + 1 ELSE @,
                         !.set = IF ~ hit /\ enable_layer_cache
                                 THEN @ + 1 ELSE @]
    /\ UNCHANGED <<now, used, histVars, threadVars, world, renderVars>>

BuildLayers(point, fig, compensated_dist, enable_layer_cache) ==
    /\ calls.build < MaxBuilds
    /\ BuildLayersOn(world, point, fig, compensated_dist, enable_layer_cache)
    /\ UNCHANGED jobVars

\* More than TTL_SECONDS go by between two renders.
Expire ==
    /\ calls.tick < 1
    /\ calls.build \in 1 .. MaxBuilds - 1
    /\ now' = now + TTL_SECONDS + TickStep
    /\ calls' = [calls EXCEPT !.tick = @ + 1]
    /\ UNCHANGED <<cacheVars, last, used, histVars, threadVars, buildVars>>

NextBuild ==
    \/ \E r \in Requests, enabled \in BOOLEAN :
          BuildLayers(r.point, r.fig, r.dist, enabled)
    \/ Expire

SpecBuild == InitBuild /\ [][NextBuild]_vars

\* Any location, rendered until a render was served from the cache or ran
\* without it.
NextLayers ==
    \E r \in Requests, enabled \in BOOLEAN :
        /\ calls.build = 0 \/ (built.enabled /\ ~ built.hit)
        /\ BuildLayers(r.point, r.fig, r.dist, enabled)

SpecLayers == InitLayers /\ [][NextLayers]_vars

\* ------------------------------------------------------------------------
\* render: build_layers, then render_layers on what it returned
\* ------------------------------------------------------------------------
RenderWorlds ==
    [edges : EdgeTables,
     water : { None, Table({"geometry", "waterway"}, {Lake, River}) },
     parks : { None, Table({"geometry"}, {Feature("Polygon", "", FALSE)}) },
     railways : { None,
                  Table({"geometry"}, {Feature("LineString", "", FALSE)}) }]

RenderBackends == {"matplotlib", "datashader", "cairo"}

InitRender == InitWith(RenderWorlds)

RenderLayers(render_backend, importable) ==
    /\ calls.render < calls.build
    /\ drawn' = RenderLayersResult(render_backend, importable, layers, crop)
    /\ calls' = [calls EXCEPT !.render = @ + 1]
    /\ UNCHANGED <<cacheVars, now, last, used, histVars, threadVars, world,
                   layers, crop, built, style, theme, road, post, saved,
                   jobVars>>

NextRender ==
    \/ \E r \in Requests :
          /\ calls.build = 0
          /\ BuildLayers(r.point, r.fig, r.dist, FALSE)
    \/ \E render_backend \in RenderBackends, importable \in BOOLEAN :
          RenderLayers(render_backend, importable)

SpecRender == InitRender /\ [][NextRender]_vars

\* ------------------------------------------------------------------------
\* DatashaderBackend.render_roads on the built layers, some of them with an
\* empty frame
\* ------------------------------------------------------------------------
EmptyFrames == SUBSET {"roads_motorway_casing", "roads_motorway_core"}

WithEmptyFrames(ls, names) ==
    [i \in DOMAIN ls |->
        IF ls[i].name \in names THEN [ls[i] EXCEPT !.rows = {}] ELSE ls[i]]

RenderRoadsCall(empty_frames, importable) ==
    /\ calls.render < calls.build
    /\ LET input == WithEmptyFrames(layers, empty_frames)
           roads == RenderRoads("datashader", importable, input)
       IN drawn' = [requested |-> "datashader", backend |-> "datashader",
                    importable |-> importable, handled |-> roads.handled,
                    input |-> input, ops |-> roads.ops, limits |-> crop]
    /\ calls' = [calls EXCEPT !.render = @ + 1]
    /\ UNCHANGED <<cacheVars, now, last, used, histVars, threadVars, world,
                   layers, crop, built, style, theme, road, post, saved,
                   jobVars>>

NextRoads ==
    \/ \E r \in Requests :
          /\ calls.build = 0
          /\ BuildLayers(r.point, r.fig, r.dist, FALSE)
    \/ \E empty_frames \in EmptyFrames, importable \in BOOLEAN :
          RenderRoadsCall(empty_frames, importable)

SpecRoads == InitRender /\ [][NextRoads]_vars

\* ------------------------------------------------------------------------
\* Post-processing: apply_raster_effects and the save step of render
\* ------------------------------------------------------------------------
InitPost == InitConfigured({NoWorld}, RasterStyles, {LoadTheme("noir", {})})

\* The calls are kept, the last MaxApplies of them.
Remember(call) ==
    IF Len(post) < MaxApplies THEN Append(post, call)
    ELSE Append(Tail(post), call)

ApplyEffects(image, entropy) ==
    /\ calls.apply < MaxApplies
    /\ post' = Remember([image |-> image,
                         outcome |-> ApplyRasterEffects(image, style, entropy)])
    /\ calls' = [calls EXCEPT !.apply = @ + 1]
    /\ UNCHANGED <<cacheVars, now, last, used, histVars, threadVars, world,
                   layers, crop, built, style, theme, road, drawn, saved,
                   jobVars>>

SaveFigure(output_format, entropy) ==
    /\ calls.save < 1
    /\ LET result == SaveResult(output_format, style, entropy)
       IN /\ saved' = result
          /\ post' = IF result.applied
                     THEN Remember([image |-> FigureImage,
                                    outcome |-> result.call])
                     ELSE post
    /\ calls' = [calls EXCEPT !.save = @ + 1]
    /\ UNCHANGED <<cacheVars, now, last, used, histVars, threadVars, world,
                   layers, crop, built, style, theme, road, drawn, jobVars>>

NextPost ==
    \/ \E image \in Images, entropy \in Entropies :
          ApplyEffects(image, entropy)
    \/ \E output_format \in OutputFormats, entropy \in Entropies :
          SaveFigure(output_format, entropy)

SpecPost == InitPost /\ [][NextPost]_vars

\* ------------------------------------------------------------------------
\* classify_edge on its own, for any theme and style
\* ------------------------------------------------------------------------
\* The highway values OSM data carries: every tag of the table, tags that
\* are not in it, lists and a missing value.
ClassifyInputs ==
    HighwayValues
    \cup { Str(tag) : tag \in DOMAIN HIGHWAY_CLASS_MAP }
    \cup { Str("busway"), Str("unknown_type"), List(<< >>),
           List(<<"motorway", "primary">>), List(<<"busway", "motorway">>),
           List(<<"footway">>) }

InitClassify == InitConfigured({NoWorld}, ClassifyStyles, Themes)

Classify(highway) ==
    /\ road' = [highway |-> highway,
                result |-> Some(ClassifyEdge(highway, theme, style))]
    /\ UNCHANGED <<cacheVars, now, last, calls, used, histVars, threadVars,
                   world, layers, crop, built, style, theme, drawn, post,
                   saved, jobVars>>

NextClassify == \E highway \in ClassifyInputs : Classify(highway)

SpecClassify == InitClassify /\ [][NextClassify]_vars

\* ------------------------------------------------------------------------
\* PosterRenderer.render, step by step
\* ------------------------------------------------------------------------
RenderSteps ==
    <<"fetch_graph", "fetch_water", "fetch_parks", "fetch_railways",
      "subplots", "build_layers", "render_layers", "post_process", "save">>

StepIndex(step) == CHOOSE i \in DOMAIN RenderSteps : RenderSteps[i] = step

NextStep(step) ==
    IF StepIndex(step) = Len(RenderSteps) THEN "done"
    ELSE RenderSteps[StepIndex(step) + 1]

\* What each fetch gives build_layers.
FetchName ==
    [fetch_graph |-> "edges", fetch_water |-> "water",
     fetch_parks |-> "parks", fetch_railways |-> "railways"]

Absorbs_All(step) == TRUE

\* fetch_features is called inside try / except OSMFetchError, fetch_graph
\* is not.
Absorbs(step) == step # "fetch_graph"

FetchOutcomes == {"ok", "OSMFetchError"}

\* A library call of the step raises, or none does.
StepOutcomes == {"ok", "raises"}

PosterWorlds ==
    { w \in BuildWorlds :
        w.water # None /\ w.parks # None /\ w.railways # None }

PosterStyles == {StyleConfig, NoirStyle}

PosterFormats == {"PNG", "svg"}

InitPoster ==
    InitConfigured(PosterWorlds, PosterStyles, {LoadTheme("noir", {})})

Entered(step) == [run EXCEPT !.trace = Append(@, step)]

Advance(r, step) == [r EXCEPT !.pc = NextStep(step)]

Raise(r, exc) == [r EXCEPT !.raised = exc, !.pc = "raised"]

StartRender(r, output_format) ==
    /\ run.pc \in {"idle", "done", "raised"}
    /\ run.count < MaxRenders
    /\ run' = [NoRun EXCEPT !.pc = "fetch_graph", !.count = run.count + 1,
                            !.req = r, !.fmt = output_format,
                            !.before = [build |-> calls.build,
                                        save |-> calls.save]]
    /\ UNCHANGED <<cacheVars, now, last, calls, used, histVars, threadVars,
                   world, layers, crop, built, renderVars, batch>>

\* graph = fetch_graph(point, compensated_dist)
FetchGraph(outcome) ==
    /\ run.pc = "fetch_graph"
    /\ run' = IF outcome = "ok"
              THEN Advance([Entered(run.pc) EXCEPT
                              !.fetched.edges = world.edges], run.pc)
              ELSE IF Absorbs(run.pc)
              THEN Advance([Entered(run.pc) EXCEPT
                              !.errors = @ \cup {run.pc}], run.pc)
              ELSE Raise([Entered(run.pc) EXCEPT
                            !.errors = @ \cup {run.pc}], outcome)
    /\ UNCHANGED <<cacheVars, now, last, calls, used, histVars, threadVars,
                   world, layers, crop, built, renderVars, batch>>

\* try: x = fetch_features(...) except OSMFetchError: x = None
FetchFeatures(outcome) ==
    /\ run.pc \in {"fetch_water", "fetch_parks", "fetch_railways"}
    /\ LET name == FetchName[run.pc]
       IN run' = IF outcome = "ok"
                 THEN Advance([Entered(run.pc) EXCEPT
                                 !.fetched[name] = world[name]], run.pc)
                 ELSE IF Absorbs(run.pc)
                 THEN Advance([Entered(run.pc) EXCEPT
                                 !.fetched[name] = None,
                                 !.errors = @ \cup {run.pc}], run.pc)
                 ELSE Raise([Entered(run.pc) EXCEPT
                               !.errors = @ \cup {run.pc}], outcome)
    /\ UNCHANGED <<cacheVars, now, last, calls, used, histVars, threadVars,
                   world, layers, crop, built, renderVars, batch>>

\* fig, ax = plt.subplots(figsize=(width, height), ...)
Subplots ==
    /\ run.pc = "subplots"
    /\ run' = Advance([Entered(run.pc) EXCEPT !.fig = "open"], run.pc)
    /\ UNCHANGED <<cacheVars, now, last, calls, used, histVars, threadVars,
                   world, layers, crop, built, renderVars, batch>>

RunBuildLayers(enable_layer_cache, outcome) ==
    /\ run.pc = "build_layers"
    /\ IF outcome = "ok"
       THEN /\ BuildLayersOn(run.fetched, run.req.point, run.req.fig,
                             run.req.dist, enable_layer_cache)
            /\ run' = Advance(Entered(run.pc), run.pc)
       ELSE /\ run' = Raise(Entered(run.pc), "ValueError")
            /\ UNCHANGED <<cacheVars, now, last, calls, used, histVars,
                           threadVars, world, layers, crop, built,
                           renderVars>>
    /\ UNCHANGED batch

RunRenderLayers(render_backend, importable, outcome) ==
    /\ run.pc = "render_layers"
    /\ IF outcome = "ok"
       THEN /\ drawn' = RenderLayersResult(render_backend, importable,
                                           layers, crop)
            /\ calls' = [calls EXCEPT !.render = @ + 1]
            /\ run' = Advance(Entered(run.pc), run.pc)
       ELSE /\ run' = Raise(Entered(run.pc), "ValueError")
            /\ UNCHANGED <<drawn, calls>>
    /\ UNCHANGED <<cacheVars, now, last, used, histVars, threadVars, world,
                   layers, crop, built, style, theme, road, post, saved,
                   batch>>

RunPostProcess(outcome) ==
    /\ run.pc = "post_process"
    /\ run' = IF outcome = "ok"
              THEN Advance([Entered(run.pc) EXCEPT !.overlay = PostProcessOps],
                           run.pc)
              ELSE Raise(Entered(run.pc), "ValueError")
    /\ UNCHANGED <<cacheVars, now, last, calls, used, histVars, threadVars,
                   world, layers, crop, built, renderVars, batch>>

\* try: ... savefig / apply_raster_effects / save ... finally: plt.close()
RunSave(entropy, outcome) ==
    /\ run.pc = "save"
    /\ LET result ==
               IF outcome = "ok" THEN SaveResult(run.fmt, style, entropy)
               ELSE [NoSaved EXCEPT !.fmt = Lower[run.fmt],
                                    !.raised = "OSError"]
       IN /\ saved' = result
          /\ post' = IF result.applied
                     THEN Remember([image |-> FigureImage,
                                    outcome |-> result.call])
                     ELSE post
          /\ run' = IF result.raised # ""
                    THEN Raise([Entered(run.pc) EXCEPT !.fig = "closed"],
                               result.raised)
                    ELSE Advance([Entered(run.pc) EXCEPT !.fig = "closed"],
                                 run.pc)
    /\ calls' = [calls EXCEPT !.save = @ + 1]
    /\ UNCHANGED <<cacheVars, now, last, used, histVars, threadVars, world,
                   layers, crop, built, style, theme, road, drawn, batch>>

NextPoster ==
    \/ \E r \in Requests, output_format \in PosterFormats :
          StartRender(r, output_format)
    \/ \E outcome \in FetchOutcomes : FetchGraph(outcome)
    \/ \E outcome \in FetchOutcomes : FetchFeatures(outcome)
    \/ Subplots
    \/ \E enabled \in BOOLEAN, outcome \in StepOutcomes :
          RunBuildLayers(enabled, outcome)
    \/ \E render_backend \in RenderBackends, outcome \in StepOutcomes :
          RunRenderLayers(render_backend, TRUE, outcome)
    \/ \E outcome \in StepOutcomes : RunPostProcess(outcome)
    \/ \E entropy \in Entropies, outcome \in StepOutcomes :
          RunSave(entropy, outcome)

SpecPoster == InitPoster /\ [][NextPoster]_vars

\* ------------------------------------------------------------------------
\* Batch processing (cli.py): _process_batch and _generate_single_city
\* ------------------------------------------------------------------------
CityPairs == { <<"Paris", "France">>, <<"Tokyo", "Japan">> }

\* What _parse_batch_file returns: the valid lines in file order, a line
\* that occurs twice included twice.
RECURSIVE SeqsUpTo(_, _)
SeqsUpTo(S, n) ==
    IF n = 0 THEN { << >> }
    ELSE LET shorter == SeqsUpTo(S, n - 1)
         IN shorter \cup { Append(s, x) : s \in shorter, x \in S }

CityLists == SeqsUpTo(CityPairs, MaxCities)

\* How generating one city ends: render returns, or one of the calls of
\* _generate_single_city raises.
CityOutcomes == {"ok", "GeocodingError", "OSMFetchError"}

SingleCityResult_AlwaysOk(city, outcome) ==
    [city |-> city, success |-> TRUE, error |-> ""]

\* try: ... return (city, True, "") except Exception as e:
\* return (city, False, str(e))
SingleCityResult(city, outcome) ==
    IF outcome = "ok" THEN [city |-> city, success |-> TRUE, error |-> ""]
    ELSE [city |-> city, success |-> FALSE, error |-> outcome]

\* return 0 if failure_count == 0 else 1
ExitCode(failure_count) == IF failure_count = 0 THEN 0 ELSE 1

Running == { f \in DOMAIN batch.futures : batch.futures[f].state = "running" }

InitBatch ==
    InitConfigured({NoWorld}, {StyleConfig}, {LoadTheme("noir", {})})

BatchUnchanged ==
    UNCHANGED <<cacheVars, now, last, calls, used, histVars, threadVars,
                world, layers, crop, built, renderVars, run>>

\* _process_batch up to the pool: the three early returns, each with exit
\* code 1.
StartBatch(file_exists, cities, theme_available) ==
    /\ batch.pc = "idle"
    /\ batch' = IF ~ file_exists
                THEN [batch EXCEPT !.pc = "done", !.exit = Some(1)]
                ELSE IF cities = << >>
                THEN [batch EXCEPT !.pc = "done", !.exit = Some(1)]
                ELSE IF ~ theme_available
                THEN [batch EXCEPT !.pc = "done", !.cities = cities,
                                   !.exit = Some(1)]
                ELSE [batch EXCEPT !.pc = "submit", !.cities = cities]
    /\ BatchUnchanged

\* for city, country in cities: future = executor.submit(...)
Submit ==
    /\ batch.pc = "submit"
    /\ LET i == Len(batch.futures) + 1
       IN batch' = [batch EXCEPT
                      !.futures = Append(@, [city |-> batch.cities[i][1],
                                             state |-> "pending",
                                             outcome |-> "",
                                             result |-> None]),
                      !.pc = IF i = Len(batch.cities) THEN "collect"
                             ELSE "submit"]
    /\ BatchUnchanged

\* A free worker of the pool takes a submitted call.
WorkerStart(f) ==
    /\ f \in DOMAIN batch.futures
    /\ batch.futures[f].state = "pending"
    /\ Cardinality(Running) < NumWorkers
    /\ batch' = [batch EXCEPT !.futures[f].state = "running"]
    /\ BatchUnchanged

\* _generate_single_city returns.
WorkerFinish(f, outcome) ==
    /\ f \in DOMAIN batch.futures
    /\ batch.futures[f].state = "running"
    /\ batch' = [batch EXCEPT
                   !.futures[f].state = "done",
                   !.futures[f].outcome = outcome,
                   !.futures[f].result =
                       Some(SingleCityResult(batch.futures[f].city, outcome))]
    /\ BatchUnchanged

\* for future in as_completed(futures_to_city): count its result
Collect(f) ==
    /\ batch.pc = "collect"
    /\ f \in DOMAIN batch.futures
    /\ f \notin batch.collected
    /\ batch.futures[f].state = "done"
    /\ LET result == batch.futures[f].result[1]
       IN batch' = [batch EXCEPT
                      !.collected = @ \cup {f},
                      !.success_count = IF result.success THEN @ + 1 ELSE @,
                      !.failure_count = IF result.success THEN @ ELSE @ + 1]
    /\ BatchUnchanged

\* The pool is shut down and the exit code returned.
FinishBatch ==
    /\ batch.pc = "collect"
    /\ batch.collected = DOMAIN batch.futures
    /\ batch' = [batch EXCEPT !.pc = "done",
                              !.exit = Some(ExitCode(batch.failure_count))]
    /\ BatchUnchanged

NextBatch ==
    \/ \E file_exists, theme_available \in BOOLEAN, cities \in CityLists :
          StartBatch(file_exists, cities, theme_available)
    \/ Submit
    \/ \E f \in 1 .. MaxCities : WorkerStart(f)
    \/ \E f \in 1 .. MaxCities, outcome \in CityOutcomes :
          WorkerFinish(f, outcome)
    \/ \E f \in 1 .. MaxCities : Collect(f)
    \/ FinishBatch

SpecBatch == InitBatch /\ [][NextBatch]_vars

\* ------------------------------------------------------------------------
\* build_layers in several threads at once, for one location, with
\* enable_layer_cache set.  The lookup and the store are the bodies of
\* LayerCache.get and LayerCache.set, each run under the lock; the
\* preparation of the bundle and the emission of the layers are local to
\* the thread.
\* ------------------------------------------------------------------------
\* The key every thread asks for.
SharedKey == KeyAt(0)

\* The centre of an earlier render whose key is KeyAt(i).
OtherPoint(i) == <<52200001 + 10 * i, 21000000>>

\* The cache after earlier renders stored the keys KeyAt(1) .. KeyAt(n).
RECURSIVE FilledOthers(_, _)
FilledOthers(n, w) ==
    IF n = 0 THEN EmptyState
    ELSE LET b == PrepareBundle(w, OtherPoint(n), <<12, 16>>, 1000000)
         IN SetResult(FilledOthers(n - 1, w),
                      FormatCacheKey(OtherPoint(n), 1000000),
                      [data |-> b, size |-> BundleSize(b)], StartTime)

\* The local variables of a thread that has not called build_layers.
NoLocals ==
    [op |-> "none", key |-> NoKey, req |-> [point |-> <<0, 0>>,
                                            fig |-> <<1, 1>>, dist |-> 0],
     hit |-> FALSE, bundle |-> NoBuilt.bundle, cached |-> FALSE,
     setno |-> 0, returned |-> None]

\* The pool starts on an empty cache or on a full one that holds other keys.
InitShared ==
    /\ world \in BuildWorlds
    /\ \E n \in {0, MAX_ENTRIES} :
          /\ cache = FilledOthers(n, world).cache
          /\ order = FilledOthers(n, world).order
          /\ stats = FilledOthers(n, world).stats
    /\ now = StartTime
    /\ last = [op |-> "init", key |-> NoKey, arg |-> NoPayload, value |-> None,
               count |-> 0]
    /\ calls = NoCalls
    /\ used = 0
    /\ fill = NoFill
    /\ insertedAt = << >>
    /\ lock = 0
    /\ pc = [t \in Threads |-> "idle"]
    /\ targ = [t \in Threads |-> NoLocals]
    /\ snap = [t \in Threads |-> NoSnap]
    /\ layers = << >>
    /\ crop = NoCrop
    /\ built = NoBuilt
    /\ RenderIdle({NoirStyle}, {LoadTheme("noir", {})})
    /\ JobsIdle

SharedUnchanged == UNCHANGED <<now, used, histVars, lock, snap, world,
                              renderVars, jobVars>>

\* cache_key = self._format_cache_key(point, compensated_dist)
BuildEnter(t, r) ==
    /\ pc[t] = "idle"
    /\ FormatCacheKey(r.point, r.dist) = SharedKey
    /\ targ' = [targ EXCEPT ![t] =
                   [NoLocals EXCEPT !.op = "build",
                                    !.key = FormatCacheKey(r.point, r.dist),
                                    !.req = r]]
    /\ pc' = [pc EXCEPT ![t] = "lookup"]
    /\ calls' = [calls EXCEPT !.build = @ + 1]
    /\ UNCHANGED <<cacheVars, last, layers, crop, built>>
    /\ SharedUnchanged

\* cached = self._get_cached_layers(cache_key); on a hit the locals are
\* read from the cached bundle, on a miss the thread prepares its own.
BuildLookup(t) ==
    /\ pc[t] = "lookup"
    /\ LockFree
    /\ LET looked == GetResult(State, targ[t].key, now)
           hit == looked.value # None
           r == targ[t].req
       IN /\ SetState(looked.st)
          /\ targ' = [targ EXCEPT
                        ![t].hit = hit,
                        ![t].cached = hit,
                        ![t].bundle =
                            IF hit THEN looked.value[1].data
                            ELSE PrepareBundle(world, r.point, r.fig, r.dist)]
          /\ pc' = [pc EXCEPT ![t] = IF hit THEN "emit" ELSE "store"]
          /\ last' = [op |-> "get", key |-> targ[t].key, arg |-> NoPayload,
                      value |-> looked.value, count |-> 0]
    /\ calls' = [calls EXCEPT !.get = @ + 1]
    /\ UNCHANGED <<layers, crop, built>>
    /\ SharedUnchanged

\* self._set_cached_layers(cache_key, {...}) at the end of the miss branch
BuildStore(t) ==
    /\ pc[t] = "store"
    /\ LockFree
    /\ LET b == targ[t].bundle
           payload == [data |-> b, size |-> BundleSize(b)]
       IN /\ SetState(SetResult(State, targ[t].key, payload, now))
          /\ last' = [op |-> "set", key |-> targ[t].key,
                      arg |-> Stamp(payload, 0), value |-> None, count |-> 0]
    /\ targ' = [targ EXCEPT
                  ![t].setno = calls.set + 1,
                  \* the dict passed to set is the one the cache now holds
                  ![t].cached = ~ IsPresent(State, targ[t].key)]
    /\ pc' = [pc EXCEPT ![t] = "emit"]
    /\ calls' = [calls EXCEPT !.set = @ + 1]
    /\ UNCHANGED <<layers, crop, built>>
    /\ SharedUnchanged

\* The layers are emitted from the locals: return layers, crop_xlim,
\* crop_ylim
BuildEmit(t) ==
    /\ pc[t] = "emit"
    /\ LET b == targ[t].bundle
           k == targ[t].key
           shared == targ[t].cached /\ k \in DOMAIN cache
                        /\ ~ NoRoadData(b.edges)
       IN /\ cache' = IF shared
                       THEN [cache EXCEPT
                               ![k].data.edges = CachedEdgesAfter(@)]
                       ELSE cache
          /\ layers' = EmitLayers(b)
          /\ crop' = b.crop
          /\ built' = [key |-> k, enabled |-> TRUE, hit |-> targ[t].hit,
                       bundle |-> b,
                       work |-> WorkDone(targ[t].hit, world),
                       point |-> targ[t].req.point, fig |-> targ[t].req.fig]
          /\ targ' = [targ EXCEPT
                        ![t].returned =
                            Some([layers |-> EmitLayers(b), crop |-> b.crop])]
    /\ pc' = [pc EXCEPT ![t] = "done"]
    /\ last' = [op |-> "build", key |-> targ[t].key, arg |-> NoPayload,
                value |-> None, count |-> 0]
    /\ UNCHANGED <<order, stats, calls>>
    /\ SharedUnchanged

NextShared ==
    \/ \E t \in Threads, r \in Requests : BuildEnter(t, r)
    \/ \E t \in Threads : BuildLookup(t)
    \/ \E t \in Threads : BuildStore(t)
    \/ \E t \in Threads : BuildEmit(t)

SpecShared == InitShared /\ [][NextShared]_vars

\* ------------------------------------------------------------------------
\* Properties of the layer cache
\* ------------------------------------------------------------------------
Entries == DOMAIN cache

Age(k) == now - cache[k].cached_at

IsGetStep(k) == calls'.get = calls.get + 1 /\ last'.key = k

IsSetStep(k) == calls'.set = calls.set + 1 /\ last'.key = k

FilledOnce == fill.clean /\ Len(fill.keys) = MAX_ENTRIES + 1

\* C1 (as stated): the cache never holds more than MAX_ENTRIES entries, and
\* after MAX_ENTRIES + 1 sets with distinct keys on the empty cache (no clear,
\* no expiry) the first key is absent and the MAX_ENTRIES others are present.
C1_FillKeepsAllButFirst ==
    /\ Cardinality(Entries) <= MAX_ENTRIES
    /\ FilledOnce =>
          /\ fill.keys[1] \notin Entries
          /\ \A i \in 2 .. MAX_ENTRIES + 1 : fill.keys[i] \in Entries

\* C1 (amended): the cache never holds more than MAX_ENTRIES entries, and
\* after MAX_ENTRIES + 1 sets with distinct keys on the empty cache the first
\* key is absent, the last key is present, and the keys in between are all
\* present when no memory eviction happened.
C1_CacheBounds ==
    /\ Cardinality(Entries) <= MAX_ENTRIES
    /\ FilledOnce =>
          /\ fill.keys[1] \notin Entries
          /\ fill.keys[MAX_ENTRIES + 1] \in Entries
          /\ stats.memory_evictions = 0 =>
                \A i \in 2 .. MAX_ENTRIES + 1 : fill.keys[i] \in Entries

C1_Witness ==
    /\ FilledOnce
    /\ stats.memory_evictions = 0
    /\ stats.evictions = 1
    /\ Cardinality(Entries) = MAX_ENTRIES

\* C2: a get of an absent key returns None and increments only misses; a get
\* of a present key older than TTL_SECONDS returns None, removes the key from
\* the index and from the insertion order and increments expired; a get of a
\* present fresh key returns the stored bundle, increments only hits and
\* leaves the index and the insertion order as they were.
C2_GetOutcomes ==
    [][\A k \in Keys : IsGetStep(k) =>
          /\ k \notin Entries =>
                /\ last'.value = None
                /\ stats' = [stats EXCEPT !.misses = @ + 1]
          /\ (k \in Entries /\ Age(k) > TTL_SECONDS) =>
                /\ last'.value = None
                /\ k \notin DOMAIN cache'
                /\ k \notin Range(order')
                /\ stats'.expired = stats.expired + 1
          /\ (k \in Entries /\ Age(k) <= TTL_SECONDS) =>
                /\ last'.value = Some(cache[k])
                /\ stats' = [stats EXCEPT !.hits = @ + 1]
                /\ cache' = cache
                /\ order' = order]_vars

C2_Witness ==
    /\ last.op = "get"
    /\ calls.get = 1
    /\ stats.expired = 1
    /\ last.value = None
    /\ last.key \notin Entries

Oldest(D) == CHOOSE e \in D : \A x \in D : insertedAt[e] <= insertedAt[x]

C4_SetPresentIsNoop ==
    [][\A k \in Keys : (IsSetStep(k) /\ k \in Entries) =>
          /\ cache' = cache
          /\ order' = order
          /\ stats' = stats]_vars

C4_Witness ==
    /\ last.op = "set"
    /\ last.key \in Entries
    /\ cache[last.key].data # last.arg.data
    /\ cache[last.key].cached_at # now

Consistent(st) ==
    /\ DOMAIN st.cache = Range(st.order)
    /\ Len(st.order) = Cardinality(Range(st.order))
    /\ Cardinality(DOMAIN st.cache) <= MAX_ENTRIES

TimesSince(t0) ==
    { t0 + i * TickStep : i \in 0 .. MaxThreadCalls } \cap (t0 .. now)

\* What the whole handler, run alone on the state st between t0 and now,
\* can leave behind.
AtomicOutcomes(call, st, t0) ==
    IF call.op = "get"
    THEN { GetResult(st, call.key, t).st : t \in TimesSince(t0) }
    ELSE IF call.op = "set"
    THEN { SetResult(st, call.key, call.payload, t) : t \in TimesSince(t0) }
    ELSE { ClearResult(st).st }

\* C5: with several threads calling get, set and clear, every call takes
\* effect atomically (when it releases the lock the cache is what the whole
\* handler makes of the cache it found when it took the lock), and whenever
\* no call is in progress the index and the insertion order hold the same
\* keys, the insertion order has no duplicate and there are at most
\* MAX_ENTRIES entries.
C5_ThreadSafe ==
    [][/\ lock' = 0 => Consistent(State')
       /\ \A t \in Threads : (lock = t /\ lock' = 0) =>
             State' \in AtomicOutcomes(targ[t], snap[t].st, snap[t].now)]_vars

C5_Witness ==
    /\ lock = 0
    /\ last.op = "set"
    /\ stats.evictions >= 1
    /\ \E t \in Threads : pc[t] = "acquire" /\ targ[t].op = "set"
                             /\ targ[t].key = last.key
    /\ Len(order) = MAX_ENTRIES

\* C6 (as stated): after every set the estimated sizes of the cached
\* entries, the new one included, sum to at most MAX_BYTES.
C6_MemoryBound ==
    last.op = "set" => GetTotalSize(cache) <= MAX_BYTES

\* C7 (as stated): after every get or set no cached entry is older than
\* TTL_SECONDS.
C7_NoExpiredEntryAfterAccess ==
    last.op \in {"get", "set"} =>
        \A k \in Entries : Age(k) <= TTL_SECONDS

\* C7 (amended): after get(k) the cache holds no entry for k that is older
\* than TTL_SECONDS.
C7_NoExpiredEntryForKey ==
    (last.op = "get" /\ last.key \in Entries) =>
        Age(last.key) <= TTL_SECONDS

C7_Witness ==
    /\ last.op = "get"
    /\ stats.expired = 1
    /\ last.key \notin Entries
    /\ \E k \in Entries : Age(k) > TTL_SECONDS

\* ------------------------------------------------------------------------
\* Properties of build_layers
\* ------------------------------------------------------------------------
ZOfKind(kind) ==
    { layers[i].zorder : i \in { j \in DOMAIN layers : layers[j].kind = kind } }

ZOfName(name) ==
    { layers[i].zorder : i \in { j \in DOMAIN layers : layers[j].name = name } }

ZOfClass(road_class) ==
    ZOfName("roads_" \o road_class \o "_casing")
    \cup ZOfName("roads_" \o road_class \o "_core")

Below(A, B) == \A a \in A, b \in B : a < b

PathZ == ZOfName("roads_path_core")

OtherRoadZ == UNION { ZOfClass(class_order[i]) : i \in 2 .. Len(class_order) }

\* C8: in every layer list build_layers returns, water polygons are below
\* waterways, waterways below parks, parks below the path layer, the path
\* layer below every other road layer; a class's casing is below its core;
\* and along default, residential, tertiary, secondary, primary, motorway
\* every layer of an earlier class is below every layer of a later class.
C8_PaintOrder ==
    /\ LET chain == <<ZOfKind("water"), ZOfKind("waterways"), ZOfKind("parks"),
                      PathZ, OtherRoadZ>>
       IN \A i, j \in DOMAIN chain : i < j => Below(chain[i], chain[j])
    /\ \A i \in DOMAIN class_order :
          Below(ZOfName("roads_" \o class_order[i] \o "_casing"),
                ZOfName("roads_" \o class_order[i] \o "_core"))
    /\ \A i, j \in 2 .. Len(class_order) :
          i < j => Below(ZOfClass(class_order[i]), ZOfClass(class_order[j]))

C8_Witness ==
    /\ last.op = "build"
    /\ ZOfKind("water") # {}
    /\ ZOfKind("waterways") # {}
    /\ ZOfKind("parks") # {}
    /\ PathZ # {}
    /\ ZOfName("roads_motorway_casing") # {}
    /\ ZOfName("roads_motorway_core") # {}

\* C9 (as stated): when the layer list holds a railways layer, its z-order
\* is above the z-order of every road layer of the list.
C9_RailwaysAboveRoads ==
    Below(ZOfKind("roads"), ZOfKind("railways"))

\* C10 (as stated): when the edge table is empty or has no highway column,
\* build_layers returns the crop bounds and exactly the water, waterway,
\* parks and railways layers of the bundle, and no road layer.
C10_NoRoadDataKeepsOtherLayers ==
    (last.op = "build" /\ NoRoadData(built.bundle.edges)) =>
        /\ layers = WaterLayers(built.bundle) \o WaterwayLayers(built.bundle)
                    \o ParkLayers(built.bundle) \o RailwayLayers(built.bundle)
        /\ crop = built.bundle.crop

\* ------------------------------------------------------------------------
\* Properties of build_layers with the layer cache
\* ------------------------------------------------------------------------
IsBuildStep == calls'.build = calls.build + 1

HasFreshEntry(k) == k \in DOMAIN cache /\ ~ IsExpired(cache[k], now)

\* C11: with caching enabled, a build_layers call whose key has a fresh
\* cache entry does no projection or geometry work and returns the cached
\* crop bounds; so the second of two consecutive calls at the same rounded
\* key returns the crop bounds of the first and makes no projection call.
C11_HitSkipsProjection ==
    [][(IsBuildStep /\ built'.enabled /\ HasFreshEntry(built'.key))
        => /\ built'.hit
           /\ built'.work = {}
           /\ crop' = cache[built'.key].data.crop
           /\ (calls.build > 0 /\ built.enabled /\ built.key = built'.key)
                 => crop' = crop]_vars

C11_Witness ==
    /\ calls.build = 2
    /\ built.enabled /\ built.hit
    /\ built.work = {}
    /\ ProjectionWork(world) # {"project_graph", "graph_to_gdfs",
                                "get_crop_limits"}
    /\ crop = cache[built.key].data.crop

LayerNames == { layers[i].name : i \in DOMAIN layers }

LayersNamed(name) == { i \in DOMAIN layers : layers[i].name = name }

LayersOfKind(kind) == { i \in DOMAIN layers : layers[i].kind = kind }

\* The road classes that have an edge in the edge table of the last build;
\* a table without a highway column gives its edges no class.
ClassesWithEdges ==
    LET edges == built.bundle.edges
    IN IF "highway" \in edges[1].cols
       THEN { RoadClass(r.highway) : r \in edges[1].rows }
       ELSE {}

RoadLayerNames(classes) ==
    { "roads_" \o c \o "_core" : c \in classes }
    \cup { "roads_" \o c \o "_casing" : c \in classes \ {"path"} }

\* C12: build_layers emits road layers for exactly the road classes that
\* have an edge: a casing and a core layer for each class other than path,
\* for path a single dotted core layer with glow 0 and no casing; a water,
\* waterway, parks or railways layer is emitted only when its feature
\* subset is non-empty; with only motorway and residential edges and no
\* water, parks or railways the layers are exactly the casing and core of
\* these two classes.
C12_RoadLayersPerClass ==
    calls.build > 0 =>
        /\ { layers[i].name : i \in LayersOfKind("roads") }
              = RoadLayerNames(ClassesWithEdges)
        /\ \A n \in RoadLayerNames(ClassesWithEdges) :
              Cardinality(LayersNamed(n)) = 1
        /\ \A i \in LayersNamed("roads_path_core") :
              /\ layers[i].style.linestyle = Dotted
              /\ layers[i].style.glow = 0
        /\ LayersOfKind("water") # {} => IsUsable(built.bundle.water)
        /\ LayersOfKind("waterways") # {} => IsUsable(built.bundle.waterways)
        /\ LayersOfKind("parks") # {} => IsUsable(built.bundle.parks)
        /\ LayersOfKind("railways") # {} => IsUsable(built.bundle.railways)
        /\ (/\ ClassesWithEdges = {"motorway", "residential"}
            /\ ~ IsUsable(built.bundle.water)
            /\ ~ IsUsable(built.bundle.waterways)
            /\ ~ IsUsable(built.bundle.parks)
            /\ ~ IsUsable(built.bundle.railways))
           => /\ Len(layers) = 4
              /\ LayerNames = {"roads_motorway_casing", "roads_motorway_core",
                               "roads_residential_casing",
                               "roads_residential_core"}

C12_Witness ==
    /\ calls.build > 0
    /\ ClassesWithEdges = {"motorway", "residential"}
    /\ world.water = None /\ world.parks = None /\ world.railways = None
    /\ Len(layers) = 4
    /\ "roads_motorway_core" \in LayerNames

\* ------------------------------------------------------------------------
\* Properties of render_layers
\* ------------------------------------------------------------------------
Draws(by) ==
    SelectSeq(drawn.ops, LAMBDA o : o.by = by /\ o.what = "layer")

DrawsOf(name) ==
    { i \in DOMAIN drawn.ops :
        drawn.ops[i].what = "layer" /\ drawn.ops[i].name = name }

NamesOf(ops) == { ops[i].name : i \in DOMAIN ops }

RoadLayerNamesBuilt == { n \in LayerNames : \E i \in LayersOfKind("roads") :
                                              layers[i].name = n }

\* C13: render_layers draws every layer build_layers produced exactly once:
\* when the backend's render_roads returns true the backend has drawn each
\* road layer and the default path only the other layers; when it returns
\* false (matplotlib, or datashader not importable) the default path draws
\* every layer; the default path draws in ascending z-order and applies the
\* crop bounds last.
C13_EveryLayerDrawnOnce ==
    calls.render > 0 =>
        LET backend_draws == Draws("datashader")
            default_draws == Draws("default")
            n == Len(drawn.ops)
        IN /\ \A name \in LayerNames : Cardinality(DrawsOf(name)) = 1
           /\ drawn.handled
                 => /\ NamesOf(backend_draws) = RoadLayerNamesBuilt
                    /\ NamesOf(default_draws)
                          = LayerNames \ RoadLayerNamesBuilt
           /\ ~ drawn.handled
                 => /\ backend_draws = << >>
                    /\ NamesOf(default_draws) = LayerNames
           /\ drawn.handled
                 <=> (drawn.backend = "datashader" /\ drawn.importable)
           /\ \A i, j \in DOMAIN default_draws :
                 i < j => default_draws[i].zorder <= default_draws[j].zorder
           /\ n >= 3
           /\ drawn.ops[n - 1].what = "set_xlim"
           /\ drawn.ops[n].what = "set_ylim"
           /\ drawn.limits = crop

C13_Witness ==
    /\ calls.render > 0
    /\ drawn.handled
    /\ Len(Draws("datashader")) >= 3
    /\ Len(Draws("default")) >= 2

\* ------------------------------------------------------------------------
\* Properties of the raster post-processing
\* ------------------------------------------------------------------------
LastApply == post[Len(post)]

\* The image of a result, whether it is a PostProcessResult or an image.
ResultImage(result) ==
    IF HasAttr(result, "image") THEN result.image ELSE result

AppliedNames(image) == [i \in DOMAIN image.effects |-> image.effects[i].name]

EffectsIf(grain, vignette, texture, color_grading) ==
    (IF grain THEN <<"grain">> ELSE << >>)
    \o (IF vignette THEN <<"vignette">> ELSE << >>)
    \o (IF texture THEN <<"texture">> ELSE << >>)
    \o (IF color_grading THEN <<"color_grading">> ELSE << >>)

TextureWanted == style.texture_strength > 0 /\ Truthy(style.paper_texture_path)

TextureMissing ==
    TextureWanted /\ style.paper_texture_path[1] \notin TextureFiles

\* C14: apply_raster_effects applies exactly the effects whose strength is
\* > 0 (texture also needs a texture path), in the order grain, vignette,
\* texture, color grading, and returns a PostProcessResult whose
\* effects_applied lists the applied names in that order and whose
\* grain_seed is the style's seed if grain was applied and absent
\* otherwise; with all strengths zero effects_applied is empty and the
\* pixel data equals the input's.
C14_EffectsTracked ==
    (post # << >> /\ LastApply.outcome.raised = "") =>
        LET result == LastApply.outcome.value[1]
            expected == EffectsIf(style.grain_strength > 0,
                                  style.vignette_strength > 0,
                                  TextureWanted,
                                  style.color_grading_strength > 0)
        IN /\ AppliedNames(ResultImage(result)) = expected
           /\ HasAttr(result, "image")
           /\ HasAttr(result, "effects_applied")
           /\ HasAttr(result, "grain_seed")
           /\ result.effects_applied = expected
           /\ result.grain_seed
                 = (IF style.grain_strength > 0 THEN style.seed ELSE None)
           /\ (style.grain_strength = 0 /\ style.vignette_strength = 0
               /\ style.texture_strength = 0
               /\ style.color_grading_strength = 0)
                 => /\ result.effects_applied = << >>
                    /\ PixelData(result.image) = PixelData(LastApply.image)

\* C15: with texture strength > 0 and a texture path whose file is
\* missing, apply_raster_effects does not raise: it skips the texture
\* effect only and applies every other effect whose strength is > 0.
C15_MissingTextureSkipped ==
    (post # << >> /\ TextureMissing) =>
        /\ LastApply.outcome.raised = ""
        /\ AppliedNames(ResultImage(LastApply.outcome.value[1]))
              = EffectsIf(style.grain_strength > 0,
                          style.vignette_strength > 0, FALSE,
                          style.color_grading_strength > 0)

AnyEffect ==
    \/ style.grain_strength > 0
    \/ style.vignette_strength > 0
    \/ style.texture_strength > 0
    \/ style.color_grading_strength > 0

\* C16: needs_raster_postprocessing(fmt, style) is true iff fmt is png and
\* one of the four strengths is > 0; render sends the image it saves
\* through apply_raster_effects exactly when it is true and otherwise
\* saves the figure directly in the requested format.
C16_RasterOnly ==
    /\ \A fmt \in {"png", "svg", "pdf", "jpg"} :
          needs_raster_postprocessing(fmt, style)
            <=> (fmt = "png" /\ AnyEffect)
    /\ calls.save > 0 =>
          IF saved.fmt = "png" /\ AnyEffect
          THEN /\ saved.applied
               /\ saved.raised = ""
               /\ saved.file # None
               /\ saved.file[1].format = "PNG"
               /\ saved.file[1].image
                     = ResultImage(saved.call.value[1])
               /\ saved.file[1].image.effects # << >>
          ELSE /\ ~ saved.applied
               /\ saved.file
                     = Some([format |-> saved.fmt, image |-> FigureImage])

\* C17: two apply_raster_effects calls with the same seed (not absent), the
\* same strengths and equal copies of the same input image return the same
\* pixel data.
C17_SeededGrainDeterministic ==
    (/\ Len(post) = 2
     /\ style.seed # None
     /\ post[1].image = post[2].image
     /\ post[1].outcome.raised = ""
     /\ post[2].outcome.raised = "")
    => PixelData(ResultImage(post[1].outcome.value[1]))
         = PixelData(ResultImage(post[2].outcome.value[1]))

C17_Witness ==
    /\ calls.apply = 2
    /\ Len(post) = 2
    /\ style.seed # None
    /\ style.grain_strength > 0
    /\ post[1].image = post[2].image
    /\ post[1].outcome.raised = ""
    /\ post[2].outcome.raised = ""
    /\ AppliedNames(ResultImage(post[2].outcome.value[1]))[1] = "grain"

\* ------------------------------------------------------------------------
\* Properties of classify_edge
\* ------------------------------------------------------------------------
Classified == road.result # None

RoadStyle == road.result[1]

\* The tag the claim classifies the highway value by.
TagOf(highway) ==
    IF highway.kind = "str" THEN highway.tags[1]
    ELSE IF highway.kind = "list" /\ Len(highway.tags) > 0
    THEN highway.tags[1]
    ELSE "unclassified"

ClassOf(tag) ==
    IF tag \in DOMAIN HIGHWAY_CLASS_MAP THEN HIGHWAY_CLASS_MAP[tag]
    ELSE "default"

ClassifiesByTable ==
    LET tag == TagOf(road.highway)
    IN /\ RoadStyle.road_class = ClassOf(tag)
       /\ tag \notin DOMAIN HIGHWAY_CLASS_MAP
             => /\ RoadStyle.road_class = "default"
                /\ RoadStyle.core_color = theme["road_default"]
       /\ RoadStyle.glow_strength
             = (IF RoadStyle.road_class \in {"motorway", "primary"}
                THEN style.road_glow_strength ELSE 0)

\* The colour the theme gives a road class: its road_<class> entry.
ThemeColorOfClass(road_class) ==
    DictGet(theme, "road_" \o road_class, theme["road_default"])

\* C18 as stated: classify_edge depends on (tag value, theme, style) only;
\* a string is looked up in the tag table, a non-empty list is classified
\* by its first element, an absent tag or empty list as 'unclassified', a
\* tag not in the table gives class default with the theme's default road
\* colour; the core colour is the theme colour of the class; glow is the
\* style's glow for motorway and primary and 0 otherwise.
C18_CoreColorOfClass ==
    Classified =>
        /\ ClassifiesByTable
        /\ RoadStyle.core_color = ThemeColorOfClass(RoadStyle.road_class)

\* C18 amended: as above, but the core colour is the theme's road_<class>
\* colour for motorway, primary, secondary, tertiary and residential and
\* the theme's default road colour for path and default, whether or not
\* the theme has a road_path colour.
C18_ClassifyEdge ==
    Classified =>
        /\ ClassifiesByTable
        /\ RoadStyle.core_color
              = (IF RoadStyle.road_class \in {"path", "default"}
                 THEN theme["road_default"]
                 ELSE theme["road_" \o RoadStyle.road_class])

C18_Witness ==
    /\ Classified
    /\ road.highway = List(<<"motorway", "primary">>)
    /\ RoadStyle.road_class = "motorway"
    /\ RoadStyle.glow_strength > 0
    /\ "road_path" \in DOMAIN theme

\* C19 as stated: core_width and casing_width come from the style's
\* per-class width maps, and each is ROAD_WIDTH_DEFAULT when the class has
\* no entry in its own map, whatever the other map holds.
C19_WidthsFallBackToDefault ==
    Classified =>
        /\ RoadStyle.core_width
              = DictGet(style.road_core_widths, RoadStyle.road_class,
                        ROAD_WIDTH_DEFAULT)
        /\ RoadStyle.casing_width
              = DictGet(style.road_casing_widths, RoadStyle.road_class,
                        ROAD_WIDTH_DEFAULT)

\* C19 amended: core_width is the core map's entry or ROAD_WIDTH_DEFAULT;
\* casing_width is the casing map's entry or, when the class has none, the
\* core_width just resolved (so ROAD_WIDTH_DEFAULT only when the class is
\* in neither map).
C19_CasingFallsBackToCore ==
    Classified =>
        LET c == RoadStyle.road_class
        IN /\ c \in DOMAIN style.road_core_widths
                 => RoadStyle.core_width = style.road_core_widths[c]
           /\ c \notin DOMAIN style.road_core_widths
                 => RoadStyle.core_width = ROAD_WIDTH_DEFAULT
           /\ c \in DOMAIN style.road_casing_widths
                 => RoadStyle.casing_width = style.road_casing_widths[c]
           /\ c \notin DOMAIN style.road_casing_widths
                 => RoadStyle.casing_width = RoadStyle.core_width

C19_Witness ==
    /\ Classified
    /\ RoadStyle.road_class \in DOMAIN style.road_core_widths
    /\ RoadStyle.road_class \notin DOMAIN style.road_casing_widths
    /\ RoadStyle.casing_width = RoadStyle.core_width
    /\ RoadStyle.core_width # ROAD_WIDTH_DEFAULT

\* half_x / half_y = fig_width / fig_height, cross-multiplied
SameRatio(limits, fig) ==
    limits.half_x.num * limits.half_y.den * fig[2]
        = limits.half_y.num * limits.half_x.den * fig[1]

CentredOn(limits, point) ==
    /\ limits.center_x = point[2]
    /\ limits.center_y = point[1]

\* C20: the crop bounds build_layers returns are centred on the centre point
\* of that call and have the width-to-height ratio of the figure passed to
\* that call, whether they were computed by the call or came from the layer
\* cache.
C20_CropMatchesCanvas ==
    [][IsBuildStep =>
           /\ CentredOn(crop', built'.point)
           /\ SameRatio(crop', built'.fig)]_vars

\* ------------------------------------------------------------------------
\* Properties of the backend selection
\* ------------------------------------------------------------------------
\* C21: backend selection never fails: a registered name ("matplotlib",
\* "datashader") selects the backend of that name, every other name selects
\* the matplotlib backend, and the matplotlib backend's render_roads returns
\* false and draws nothing, so the default path draws the roads.
C21_BackendSelection ==
    calls.render > 0 =>
        /\ drawn.requested \in {"matplotlib", "datashader"}
              => drawn.backend = drawn.requested
        /\ drawn.requested \notin {"matplotlib", "datashader"}
              => drawn.backend = "matplotlib"
        /\ drawn.backend = "matplotlib"
              => /\ ~ drawn.handled
                 /\ Draws("datashader") = << >>
                 /\ NamesOf(Draws("default")) = LayerNames

C21_Witness ==
    /\ calls.render > 0
    /\ drawn.requested = "cairo"
    /\ drawn.backend = "matplotlib"
    /\ drawn.importable
    /\ RoadLayerNamesBuilt # {}

\* ------------------------------------------------------------------------
\* Properties of the stored bundles
\* ------------------------------------------------------------------------
\* The bundle the miss branch prepares for some request with key k.
IsPreparedFor(k, data) ==
    \E r \in Requests :
        /\ FormatCacheKey(r.point, r.dist) = k
        /\ data = PrepareBundle(world, r.point, r.fig, r.dist)

\* C22: a stored bundle is never modified: after every build_layers call
\* and every expiry, each entry of the cache holds a bundle exactly as the
\* miss branch prepared it (no road_class column on its edge table), an
\* entry that stays in the cache across a step keeps every field, and a
\* call that hits returns the bundle as it was stored.
C22_StoredBundleReadOnly ==
    [][/\ \A k \in DOMAIN cache' : IsPreparedFor(k, cache'[k].data)
       /\ \A k \in DOMAIN cache \cap DOMAIN cache' :
             cache'[k].cached_at = cache[k].cached_at
                => cache'[k] = cache[k]
       /\ IsBuildStep /\ built'.hit
             => IsPreparedFor(built'.key, built'.bundle)]_vars

C22_Witness ==
    /\ built.hit
    /\ ~ NoRoadData(built.bundle.edges)
    /\ "roads_motorway_core" \in LayerNames
    /\ built.key \in DOMAIN cache
    /\ "road_class" \notin cache[built.key].data.edges[1].cols

\* ------------------------------------------------------------------------
\* Properties of the overlay z-orders
\* ------------------------------------------------------------------------
OverlayZ(what) ==
    { PostProcessOps[i].zorder :
        i \in { j \in DOMAIN PostProcessOps : PostProcessOps[j].what = what } }

\* C23: every layer build_layers emits has a z-order strictly below that of
\* the gradient fades, which is strictly below that of the typography, so
\* what post_process adds is painted above every map layer.
C23_LayersBelowOverlays ==
    /\ \A i \in DOMAIN layers :
          \A z \in OverlayZ("gradient_bottom") \cup OverlayZ("gradient_top") :
             layers[i].zorder < z
    /\ \A g \in OverlayZ("gradient_bottom") \cup OverlayZ("gradient_top") :
          \A t \in OverlayZ("typography") : g < t

\* ------------------------------------------------------------------------
\* Properties of DatashaderBackend.render_roads
\* ------------------------------------------------------------------------
InputNamed(name) == { i \in DOMAIN drawn.input : drawn.input[i].name = name }

\* The road layers of the input that have geometry.
DrawableRoads ==
    { i \in DOMAIN drawn.input :
        IsRoadName(drawn.input[i].name) /\ drawn.input[i].rows # {} }

\* The positions in drawn.ops of the draws of input layer i.
LayerDraws(i) ==
    { p \in DOMAIN drawn.ops :
        /\ drawn.ops[p].what = "layer"
        /\ drawn.ops[p].name = drawn.input[i].name }

GlowDraws == { p \in DOMAIN drawn.ops : drawn.ops[p].what = "glow" }

CasingOf(core_name) ==
    { i \in DOMAIN drawn.input :
        \E c \in Range(class_order) :
            /\ core_name = "roads_" \o c \o "_core"
            /\ drawn.input[i].name = "roads_" \o c \o "_casing" }

\* C24: when the datashader backend handles the roads, every casing layer
\* is drawn before any core layer or glow, a road layer is drawn once if it
\* has geometry and not at all if its frame is empty, and a core layer is
\* preceded immediately by a glow raster exactly when its glow is positive;
\* the glow has the core's z-order minus 0.1, strictly between the z-orders
\* of the casing and the core of that class.
C24_DatashaderOrder ==
    (calls.render > 0 /\ drawn.handled) =>
        /\ \A p, q \in DOMAIN drawn.ops :
              (IsCasingName(drawn.ops[p].name)
               /\ IsCoreName(drawn.ops[q].name)) => p < q
        /\ \A i \in DOMAIN drawn.input :
              Cardinality(LayerDraws(i))
                 = IF i \in DrawableRoads THEN 1 ELSE 0
        /\ \A p \in GlowDraws :
              /\ p + 1 \in DOMAIN drawn.ops
              /\ drawn.ops[p + 1].what = "layer"
              /\ drawn.ops[p + 1].name = drawn.ops[p].name
              /\ drawn.ops[p].zorder = drawn.ops[p + 1].zorder - 1
              /\ \A i \in CasingOf(drawn.ops[p].name) :
                    /\ drawn.input[i].zorder < drawn.ops[p].zorder
                    /\ drawn.ops[p].zorder < drawn.ops[p + 1].zorder
        /\ \A i \in DrawableRoads :
              IsCoreName(drawn.input[i].name) =>
                 \A p \in LayerDraws(i) :
                    (DictGet(drawn.input[i].style, "glow", 0) > 0)
                       <=> (p - 1 \in GlowDraws
                            /\ drawn.ops[p - 1].name = drawn.input[i].name)

C24_Witness ==
    /\ calls.render > 0
    /\ drawn.handled
    /\ GlowDraws # {}
    /\ \E i \in InputNamed("roads_motorway_casing") : drawn.input[i].rows = {}
    /\ \E i \in InputNamed("roads_motorway_core") : i \in DrawableRoads
    /\ \E i \in DOMAIN drawn.input :
          drawn.input[i].name = "roads_path_core" /\ i \in DrawableRoads

C24_SkipsGlowOfEmptyCore ==
    /\ calls.render > 0
    /\ drawn.handled
    /\ \E i \in InputNamed("roads_motorway_core") :
          /\ drawn.input[i].rows = {}
          /\ DictGet(drawn.input[i].style, "glow", 0) > 0
    /\ Len(drawn.ops) >= 2

\* ------------------------------------------------------------------------
\* Properties of PosterRenderer.render
\* ------------------------------------------------------------------------
IsPrefix(s, t) == Len(s) <= Len(t) /\ s = SubSeq(t, 1, Len(s))

StepsTaken == SelectSeq(run.trace, LAMBDA s : s # "subplots")

\* C25: render enters its steps in the order fetch street graph, water,
\* parks, railways, build layers, render layers, overlay, save; an
\* OSMFetchError from the water, parks or railways fetch leaves that
\* feature set absent and the render goes on, and an OSMFetchError from the
\* street graph fetch ends the render with that error before any layer is
\* built, any figure is made or any file is saved.
C25_RenderSequence ==
    /\ IsPrefix(StepsTaken,
                <<"fetch_graph", "fetch_water", "fetch_parks",
                  "fetch_railways", "build_layers", "render_layers",
                  "post_process", "save">>)
    /\ \A step \in {"fetch_water", "fetch_parks", "fetch_railways"} :
          step \in run.errors
             => /\ run.fetched[FetchName[step]] = None
                /\ run.raised # "OSMFetchError"
                /\ run.pc # "raised" => run.pc = NextStep(run.trace[Len(run.trace)])
    /\ "fetch_graph" \in run.errors
          => /\ run.pc = "raised"
             /\ run.raised = "OSMFetchError"
             /\ run.trace = <<"fetch_graph">>
             /\ calls.build = run.before.build
             /\ calls.save = run.before.save
             /\ run.fig = "none"
             /\ run.count = 1 => layers = << >> /\ saved = NoSaved
    /\ (calls.build > run.before.build /\ ~ built.hit)
          => \A name \in {"water", "parks", "railways"} :
                run.fetched[name] = None
                   => built.bundle[name] = None

C25_Witness ==
    /\ run.pc = "done"
    /\ run.errors = {"fetch_water", "fetch_railways"}
    /\ saved.file # None
    /\ LayerNames = {"parks", "roads_path_core", "roads_motorway_casing",
                     "roads_motorway_core"}

\* C30: the figure render creates is closed when render has returned or
\* raised, whichever step failed.
C30_FigureClosed ==
    run.pc \in {"done", "raised"} => run.fig # "open"

\* ------------------------------------------------------------------------
\* Properties of the batch processing
\* ------------------------------------------------------------------------
FuturesWith(outcomes) ==
    { f \in DOMAIN batch.futures : batch.futures[f].outcome \in outcomes }

\* Each parsed pair was submitted once, in file order.
SubmittedOnce ==
    /\ Len(batch.futures) = Len(batch.cities)
    /\ \A i \in DOMAIN batch.cities :
          batch.futures[i].city = batch.cities[i][1]

\* Every city was generated and counted, a raising one as a failure.
AllCounted ==
    /\ \A f \in DOMAIN batch.futures :
          /\ batch.futures[f].state = "done"
          /\ batch.futures[f].result[1].success
                <=> batch.futures[f].outcome = "ok"
    /\ batch.success_count = Cardinality(FuturesWith({"ok"}))
    /\ batch.failure_count = Cardinality(FuturesWith(CityOutcomes \ {"ok"}))
    /\ batch.success_count + batch.failure_count = Len(batch.cities)

\* C26: when the batch ends each parsed pair has been submitted exactly
\* once, a city whose generation raised is a failed result and every other
\* city was still generated, successes plus failures is the number of
\* cities, and the exit code is 0 iff there were no failures.
C26_BatchCounts ==
    batch.pc = "done" =>
        /\ SubmittedOnce
        /\ AllCounted
        /\ batch.exit = Some(0) <=> batch.failure_count = 0

BatchRan == batch.futures # << >>

\* C26 (amended): the same for a batch that reaches the worker pool, that
\* is, when the batch file exists, holds a valid pair and the theme is
\* available; otherwise nothing is submitted or counted and the exit code
\* is 1.
C26_BatchCountsWhenRun ==
    /\ batch.pc \in {"collect", "done"} /\ BatchRan => SubmittedOnce
    /\ batch.pc = "done" /\ BatchRan
          => /\ AllCounted
             /\ batch.exit = Some(0) <=> batch.failure_count = 0
    /\ batch.pc = "done" /\ ~ BatchRan
          => /\ batch.exit = Some(1)
             /\ batch.success_count = 0
             /\ batch.failure_count = 0

C26_Witness ==
    /\ batch.pc = "done"
    /\ Len(batch.cities) = 3
    /\ Len(batch.futures) = 3
    /\ batch.cities[1] = batch.cities[3]
    /\ batch.futures[1].outcome = "OSMFetchError"
    /\ batch.futures[2].outcome = "ok"
    /\ batch.futures[3].outcome = "ok"
    /\ batch.exit = Some(1)

\* ------------------------------------------------------------------------
\* Properties of the cache counters
\* ------------------------------------------------------------------------
Counters == DOMAIN InitStats

\* get calls accounted for by the counters
Lookups == stats.hits + stats.misses + stats.expired

\* Entries accounted for: those in the cache and those that left it by
\* eviction or expiry.
Accounted ==
    Cardinality(DOMAIN cache) + stats.evictions + stats.memory_evictions
        + stats.expired

IsClearStep == calls'.clear = calls.clear + 1

IsInsertingSetStep ==
    calls'.set = calls.set + 1 /\ last'.key \notin DOMAIN cache

\* C28: the counters account for every operation.  All are zero and the
\* cache is empty at the start, and in every step no counter decreases,
\* hits + misses + expired is the number of get calls made, and entries +
\* evictions + memory_evictions + expired grows by one in a set call that
\* inserts, shrinks by the returned count in a clear call and is constant
\* otherwise: so it equals, in every state, the number of inserting set
\* calls minus the sum of the counts the clear calls returned.
C28_CountersAccount ==
    /\ \A c \in Counters : stats[c] = 0
    /\ cache = << >>
    /\ calls.get = 0
    /\ [][/\ \A c \in Counters : stats'[c] >= stats[c]
          /\ Lookups = calls.get
          /\ Lookups' = calls'.get
          /\ Accounted' = Accounted
                            + (IF IsInsertingSetStep THEN 1 ELSE 0)
                            - (IF IsClearStep THEN last'.count ELSE 0)]_vars

C28_Witness ==
    /\ last.op = "clear"
    /\ last.count >= 2
    /\ stats.memory_evictions >= 1

\* ------------------------------------------------------------------------
\* Read-your-write
\* ------------------------------------------------------------------------
\* A get of the key the call before it set, with no time in between.
IsGetAfterSet ==
    /\ last.op = "set"
    /\ calls'.get = calls.get + 1
    /\ last'.key = last.key

\* C29: a get that immediately follows set(k, v) is a hit and returns a
\* bundle for k, whatever the cache held before the set.
C29_ReadYourWrite ==
    [][IsGetAfterSet =>
          /\ last'.value # None
          /\ stats'.hits = stats.hits + 1]_vars

\* The set before inserted its payload: the key was absent.
JustInserted(k) == k \in DOMAIN insertedAt /\ insertedAt[k] = calls.set

\* C29 (amended): a get that immediately follows set(k, v) is a hit when k
\* was absent before the set, and then returns v, or when the entry k had
\* before the set is not older than TTL_SECONDS, and then returns that
\* older bundle; when k had an entry older than TTL_SECONDS the set leaves
\* it in place, and the get removes it, counts it as expired and returns
\* nothing.
C29_ReadYourFreshWrite ==
    [][IsGetAfterSet =>
          LET k == last.key
          IN /\ k \in DOMAIN cache
             /\ JustInserted(k)
                   => /\ last'.value = Some(cache[k])
                      /\ cache[k].data = last.arg.data
                      /\ cache[k].cached_at = now
             /\ Age(k) <= TTL_SECONDS
                   => /\ last'.value = Some(cache[k])
                      /\ stats'.hits = stats.hits + 1
             /\ Age(k) > TTL_SECONDS
                   => /\ ~ JustInserted(k)
                      /\ last'.value = None
                      /\ stats'.expired = stats.expired + 1
                      /\ k \notin DOMAIN cache']_vars

C29_Witness ==
    /\ last.op = "get"
    /\ last.value # None
    /\ calls.set >= 2
    /\ last.key \in DOMAIN insertedAt
    /\ insertedAt[last.key] = calls.set
    /\ stats.evictions + stats.memory_evictions >= 1

\* ------------------------------------------------------------------------
\* Concurrent build_layers calls with one cache key
\* ------------------------------------------------------------------------
Occurrences(s, x) == Len(SelectSeq(s, LAMBDA y : y = x))

AllReturned == \A t \in Threads : pc[t] = "done"

\* The threads whose set call was the n-th.
SettersNo(n) == { t \in Threads : targ[t].setno = n }

IsStoreStep(t) == pc[t] = "store" /\ pc'[t] = "emit"

IsEmitStep(t) == pc[t] = "emit" /\ pc'[t] = "done"

\* Once a set for the key has returned, the cache holds one entry for it,
\* with the bundle of the thread whose set came first.
OneEntryOfFirstSetter ==
    calls.set >= 1 =>
        /\ SharedKey \in DOMAIN cache
        /\ Occurrences(order, SharedKey) = 1
        /\ Cardinality(DOMAIN cache) <= MAX_ENTRIES
        /\ \E t \in SettersNo(1) : cache[SharedKey].data = targ[t].bundle

\* C27: threads calling build_layers concurrently with one cache key and
\* caching enabled.  Once a set has returned, and so when all threads are
\* done, the cache holds exactly one entry for the key, with the bundle of
\* the thread whose set took the lock first; a later set for the key leaves
\* the entries, the order and the counters as they are (it replaces nothing
\* and evicts nothing); the entry of the key is never changed afterwards;
\* and every thread returns, without an error, the layers and the crop
\* bounds of the bundle it prepared (miss) or found (hit).
C27_SharedKeyFirstSetWins ==
    [][/\ OneEntryOfFirstSetter'
       /\ SharedKey \in DOMAIN cache
             => SharedKey \in DOMAIN cache'
                /\ cache'[SharedKey] = cache[SharedKey]
       /\ \A t \in Threads :
             /\ IsStoreStep(t) /\ SharedKey \in DOMAIN cache
                   => UNCHANGED cacheVars
             /\ IsStoreStep(t) /\ SharedKey \notin DOMAIN cache
                   => /\ cache'[SharedKey].data = targ[t].bundle
                      /\ targ'[t].setno = 1
             /\ IsEmitStep(t)
                   => /\ targ'[t].returned =
                            Some([layers |-> EmitLayers(targ[t].bundle),
                                  crop |-> targ[t].bundle.crop])
                      /\ layers' = EmitLayers(targ[t].bundle)
                      /\ crop' = targ[t].bundle.crop
                      /\ IF targ[t].hit
                         THEN targ[t].bundle = cache[SharedKey].data
                         ELSE targ[t].bundle =
                                 PrepareBundle(world, targ[t].req.point,
                                               targ[t].req.fig,
                                               targ[t].req.dist)]_vars

\* Two threads missed and stored different bundles, the first store
\* evicted an entry of a full cache, the second changed nothing, and
\* every thread has returned.
C27_Witness ==
    /\ AllReturned
    /\ \E t \in SettersNo(1), u \in SettersNo(2) :
          /\ targ[t].bundle # targ[u].bundle
          /\ cache[SharedKey].data = targ[t].bundle
          /\ targ[u].returned # None
    /\ stats.evictions = 1
    /\ Cardinality(DOMAIN cache) = MAX_ENTRIES

====
